---- MODULE Spec2Model ----
(***************************************************************************)
(* Model of the editing core of paladin (paladin-core/src/editor.rs and    *)
(* paladin-core/src/editor/buffer.rs).                                     *)
(*                                                                         *)
(* Text is a sequence of UTF-8 bytes (integers).  The rope is the crop     *)
(* Rope: byte addressed, lines separated by LF or CR LF, a trailing line   *)
(* break does not open a further line, the empty rope has no line.         *)
(* A panic (a failed assert/expect/unwrap, panic!, or an out-of-range rope *)
(* access) ends the program: `panicked` becomes TRUE with the fields as    *)
(* they were when the panic was raised, and no further operation runs.     *)
(***************************************************************************)
EXTENDS Integers, Sequences, FiniteSets, TLC

VARIABLES rope, cursor, panicked, last, trip, tree, lsp, chan,
          submitted, next_id, sent_requests, writer, reader, sink, pc, child,
          file, io, hl, log

vars ==
  <<rope, cursor, panicked, last, trip, tree, lsp, chan,
    submitted, next_id, sent_requests, writer, reader, sink, pc, child,
    file, io, hl, log>>

\* the state of a protocol client session: the id counter and the Pending
\* Request Table, the frames written to and waiting from the child process,
\* the responses handed to the sink, the threads' positions, the child
\* itself, the text of the file on disk as Lsp::init reads it for a session,
\* the frame reader's byte stream, the highlight projector, and what dbg!
\* has written to the standard error stream
sessionVars ==
  <<next_id, sent_requests, writer, reader, sink, pc, child, file, io, hl, log>>

\* ---------------------------------------------------------------- bounds

\* longest document (bytes) an insert may produce
MaxDocLen == 4
\* longest document (bytes) a file holds when it is opened
MaxInitLen == 3
\* most characters of one inserted text
MaxTextChars == 2

\* ------------------------------------------------------------ UTF-8 text

\* '\n', the byte insert() splits on
Nl == 10

\* the characters texts are built from: 'a', U+00E9 (two bytes), LF, CR
Chars == {<<97>>, <<195, 169>>, <<Nl>>, <<13>>}

\* the same without the carriage return
LfChars == {<<97>>, <<195, 169>>, <<Nl>>}

\* the texts of n characters drawn from chars
RECURSIVE TextsOfChars(_, _)
TextsOfChars(chars, n) ==
  IF n = 0 THEN {<<>>}
  ELSE {t \o ch : t \in TextsOfChars(chars, n - 1), ch \in chars}

\* the texts of at most n characters drawn from chars
RECURSIVE TextsUpTo(_, _)
TextsUpTo(chars, n) ==
  IF n = 0 THEN {<<>>}
  ELSE TextsUpTo(chars, n - 1) \cup TextsOfChars(chars, n)

Min(a, b) == IF a <= b THEN a ELSE b

\* usize::saturating_sub
SatSub(a, b) == IF a >= b THEN a - b ELSE 0

\* bytes s[from+1 .. to], i.e. the Rust slice s[from..to]
Slice(s, from, to) == SubSeq(s, from + 1, to)

\* a UTF-8 continuation byte (0b10xxxxxx)
IsContinuation(b) == b >= 128 /\ b < 192

\* char::len_utf8 read off the leading byte
LenUtf8(b) ==
  IF b < 128 THEN 1 ELSE IF b < 224 THEN 2 ELSE IF b < 240 THEN 3 ELSE 4

\* number of characters of a text
RECURSIVE CharCount(_)
CharCount(s) ==
  IF s = <<>> THEN 0
  ELSE 1 + CharCount(Slice(s, Min(LenUtf8(s[1]), Len(s)), Len(s)))

\* number of '\n' bytes of a text
RECURSIVE LineBreaks(_)
LineBreaks(s) ==
  IF s = <<>> THEN 0
  ELSE (IF s[1] = Nl THEN 1 ELSE 0) + LineBreaks(Tail(s))

\* ------------------------------------------------------------- crop Rope

HasTrailingNewline(r) == r # <<>> /\ r[Len(r)] = Nl

\* Rope::line_len
RopeLineLen(r) ==
  LineBreaks(r) + 1 - (IF HasTrailingNewline(r) THEN 1 ELSE 0)
                    - (IF r = <<>> THEN 1 ELSE 0)

\* byte offset just after the n-th '\n' of r (0 for n = 0)
RECURSIVE AfterBreak(_, _, _)
AfterBreak(r, n, pos) ==
  IF n = 0 THEN pos
  ELSE IF pos >= Len(r) THEN Len(r)
  ELSE AfterBreak(r, IF r[pos + 1] = Nl THEN n - 1 ELSE n, pos + 1)

\* Rope::byte_of_line; -1 stands for its out-of-bounds panic
ByteOfLine(r, line) ==
  IF line > RopeLineLen(r) THEN -1
  ELSE IF line > LineBreaks(r) THEN Len(r)
  ELSE AfterBreak(r, line, 0)

\* offset of the first '\n' at or after pos, Len(r) when there is none
RECURSIVE NextBreak(_, _)
NextBreak(r, pos) ==
  IF pos >= Len(r) THEN Len(r)
  ELSE IF r[pos + 1] = Nl THEN pos ELSE NextBreak(r, pos + 1)

\* Rope::line for an index below line_len: the line without its terminator,
\* which is LF or CR LF
RopeLine(r, line) ==
  LET from == AfterBreak(r, line, 0)
      brk  == NextBreak(r, from)
      to   == IF brk < Len(r) /\ brk > from /\ r[brk] = 13 THEN brk - 1 ELSE brk
  IN  Slice(r, from, to)

\* Rope::line panics on an index that is not below line_len
LinePanics(r, line) == line >= RopeLineLen(r)

\* RopeSlice::is_char_boundary for an offset within 0..byte_len
IsCharBoundary(s, i) ==
  i = 0 \/ i = Len(s) \/ (i < Len(s) /\ ~IsContinuation(s[i + 1]))

\* Rope::insert / Rope::delete panic outside the text or inside a character
OffsetPanics(r, i) == i < 0 \/ i > Len(r) \/ ~IsCharBoundary(r, i)

RopeInsert(r, at, text) == Slice(r, 0, at) \o text \o Slice(r, at, Len(r))

RopeDelete(r, from, to) == Slice(r, 0, from) \o Slice(r, to, Len(r))

\* -------------------------------------------------- Cursor and Edit values

Cursor(line, byte) == [line |-> line, byte |-> byte]

\* Cursor::with_character
with_character(c, character) ==
  [byte |-> c.byte, character |-> character, line |-> c.line]

NoEdit == [kind |-> "None"]

Unit == [kind |-> "Unit"]

EditInsert(start, start_byte, new_end, new_end_byte) ==
  [kind |-> "Insert", start |-> start, start_byte |-> start_byte,
   new_end |-> new_end, new_end_byte |-> new_end_byte]

EditDelete(from, from_byte, to, to_byte) ==
  [kind |-> "Delete", from |-> from, from_byte |-> from_byte,
   to |-> to, to_byte |-> to_byte]

\* what one SimpleBuffer call leaves behind
Outcome(r, c, ret, panic) ==
  [rope |-> r, cursor |-> c, ret |-> ret, panic |-> panic]

\* ------------------------------------------- SimpleBuffer: pure helpers

\* the loop of line_char_idx over line.chars(): idx characters read so far,
\* length their bytes; -1 stands for the panic! after the loop
RECURSIVE CharIdxLoop(_, _, _, _)
CharIdxLoop(line, byte, idx, length) ==
  IF length >= Len(line) THEN -1
  ELSE LET l2 == length + LenUtf8(line[length + 1])
       IN  IF l2 = byte THEN idx + 1 ELSE CharIdxLoop(line, byte, idx + 1, l2)

\* the cursor's byte offset taken for its character index
line_byte_idx(r, c) == IF LinePanics(r, c.line) THEN -1 ELSE c.byte

\* line_char_idx; -1 stands for a panic (rope.line out of range, or the
\* cursor not on a character boundary)
line_char_idx(r, c) ==
  IF LinePanics(r, c.line) THEN -1
  ELSE IF c.byte = 0 THEN 0
  ELSE CharIdxLoop(RopeLine(r, c.line), c.byte, 0, 0)

\* SimpleBuffer::line_byte_to_global; -1 stands for byte_of_line's panic
line_byte_to_global(r, line, row) ==
  IF ByteOfLine(r, line) < 0 THEN -1 ELSE ByteOfLine(r, line) + row

\* SimpleBuffer::global_cursor_to_byte
global_cursor_to_byte(r, c) == line_byte_to_global(r, c.line, c.byte)

\* the loop of line_prev_char_index: step back to a character boundary;
\* -1 stands for is_char_boundary's out-of-range panic
RECURSIVE PrevLoop(_, _)
PrevLoop(line, row) ==
  IF row - 1 > Len(line) THEN -1
  ELSE IF IsCharBoundary(line, row - 1) THEN row - 1
  ELSE PrevLoop(line, row - 1)

\* SimpleBuffer::line_prev_char_index: -2 stands for None, -1 for a panic
line_prev_char_index(r, c) ==
  IF c.byte = 0 THEN -2
  ELSE IF LinePanics(r, c.line) THEN -1
  ELSE PrevLoop(RopeLine(r, c.line), c.byte)

\* SimpleBuffer::global_prev_char_index: -2 stands for None, -1 for a panic
global_prev_char_index(r, c) ==
  IF line_prev_char_index(r, c) < 0 THEN line_prev_char_index(r, c)
  ELSE line_byte_to_global(r, c.line, line_prev_char_index(r, c))

\* the loop of line_next_char_index: step forward to a character boundary
RECURSIVE NextLoop(_, _)
NextLoop(line, row) ==
  IF row + 1 > Len(line) THEN -1
  ELSE IF IsCharBoundary(line, row + 1) THEN row + 1
  ELSE NextLoop(line, row + 1)

\* SimpleBuffer::line_next_char_index: -2 stands for None, -1 for a panic
line_next_char_index(r, c) ==
  IF LinePanics(r, c.line) THEN -1
  ELSE IF c.byte = Len(RopeLine(r, c.line)) THEN -2
  ELSE NextLoop(RopeLine(r, c.line), c.byte)

\* text.split('\n').count() - 1
NewLines(text) == LineBreaks(text)

\* offset just after the last '\n' among the first n bytes of text, else 0
RECURSIVE AfterLastBreak(_, _)
AfterLastBreak(text, n) ==
  IF n = 0 THEN 0
  ELSE IF text[n] = Nl THEN n ELSE AfterLastBreak(text, n - 1)

\* text.lines().last().map(|line| line.len()).unwrap_or(0): str::lines ends
\* a line at LF or CR LF and yields no line after a final line break
LastLineLen(text) ==
  IF text = <<>> THEN 0
  ELSE IF text[Len(text)] # Nl THEN Len(text) - AfterLastBreak(text, Len(text))
  ELSE LET from == AfterLastBreak(text, Len(text) - 1)
           to   == Len(text) - 1
       IN  IF to > from /\ text[to] = 13 THEN to - 1 - from ELSE to - from

\* ------------------------------------------------ SimpleBuffer: operations

\* cursor after the rope.insert of SimpleBuffer::insert
InsertCursor(c, text) ==
  IF NewLines(text) > 0
    THEN Cursor(c.line + NewLines(text), LastLineLen(text))
    ELSE Cursor(c.line, c.byte + Len(text))

\* SimpleBuffer::insert
insert(r, c, text) ==
  LET startCh    == line_char_idx(r, c)
      start_byte == global_cursor_to_byte(r, c)
      r2 == IF text # <<>> THEN RopeInsert(r, start_byte, text) ELSE r
      c2 == IF text # <<>> THEN InsertCursor(c, text) ELSE c
      endCh == line_char_idx(r2, c2)
  IN  IF startCh < 0 \/ start_byte < 0 THEN Outcome(r, c, NoEdit, TRUE)
      ELSE IF text # <<>> /\ OffsetPanics(r, start_byte)
        THEN Outcome(r, c, NoEdit, TRUE)
      ELSE IF endCh < 0 \/ global_cursor_to_byte(r2, c2) < 0
        THEN Outcome(r2, c2, NoEdit, TRUE)
      ELSE Outcome(r2, c2,
                   EditInsert(with_character(c, startCh), start_byte,
                              with_character(c2, endCh),
                              global_cursor_to_byte(r2, c2)),
                   FALSE)

\* SimpleBuffer::cursor_line_up: the end of the line above; its two
\* assert!s and current_line() can panic, then the cursor is as it was left
cursor_line_up(r, c) ==
  IF ~(c.line > 0) \/ ~(c.byte = 0) THEN [cursor |-> c, panic |-> TRUE]
  ELSE IF LinePanics(r, SatSub(c.line, 1))
    THEN [cursor |-> Cursor(SatSub(c.line, 1), c.byte), panic |-> TRUE]
  ELSE [cursor |-> Cursor(SatSub(c.line, 1),
                          Len(RopeLine(r, SatSub(c.line, 1)))),
        panic |-> FALSE]

\* the branch of SimpleBuffer::back taken at byte 0: cursor_line_up, then
\* delete the one byte at the cursor
BackJoin(r, c) ==
  LET up        == cursor_line_up(r, c)
      c2        == up.cursor
      fromCh    == line_char_idx(r, c2)
      from_byte == global_cursor_to_byte(r, c2)
      to_byte   == from_byte + 1
      to        == [byte |-> 0, character |-> 0, line |-> c2.line + 1]
  IN  IF up.panic \/ fromCh < 0 \/ from_byte < 0
        THEN Outcome(r, c2, NoEdit, TRUE)
      ELSE IF OffsetPanics(r, from_byte) \/ OffsetPanics(r, to_byte)
        THEN Outcome(r, c2, NoEdit, TRUE)
      ELSE Outcome(RopeDelete(r, from_byte, to_byte), c2,
                   EditDelete(with_character(c2, fromCh), from_byte, to, to_byte),
                   FALSE)

\* the branch of SimpleBuffer::back taken inside a line: delete the
\* character before the cursor
BackChar(r, c) ==
  LET start == global_prev_char_index(r, c)
      end   == global_cursor_to_byte(r, c)
      toCh  == line_char_idx(r, c)
      r2    == RopeDelete(r, start, end)
      up    == cursor_line_up(r2, c)
      c2    == IF c.byte = 0 THEN up.cursor
               ELSE Cursor(c.line, SatSub(c.byte, end - start))
      fromCh == line_char_idx(r2, c2)
  IN  IF start < 0 \/ end < 0 \/ toCh < 0 THEN Outcome(r, c, NoEdit, TRUE)
      ELSE IF OffsetPanics(r, start) \/ OffsetPanics(r, end)
        THEN Outcome(r, c, NoEdit, TRUE)
      ELSE IF (c.byte = 0 /\ up.panic) \/ fromCh < 0
        THEN Outcome(r2, c2, NoEdit, TRUE)
      ELSE Outcome(r2, c2,
                   EditDelete(with_character(c2, fromCh), start,
                              with_character(c, toCh), end),
                   FALSE)

\* the same without the early return at the start of the document
back_no_start_check(r, c) ==
  IF c.byte = 0 THEN BackJoin(r, c) ELSE BackChar(r, c)

\* SimpleBuffer::back
back(r, c) ==
  IF c.line = 0 /\ c.byte = 0 THEN Outcome(r, c, NoEdit, FALSE)
  ELSE IF c.byte = 0 THEN BackJoin(r, c)
  ELSE BackChar(r, c)

\* SimpleBuffer::clamp_cursor_max
clamp_cursor_max(c, max) == Cursor(c.line, Min(c.byte, max))

\* the same tail without the step back to a character boundary
ClampOnly(r, c) ==
  IF LinePanics(r, c.line) THEN Outcome(r, c, Unit, TRUE)
  ELSE Outcome(r, clamp_cursor_max(c, Len(RopeLine(r, c.line))), Unit, FALSE)

\* the common tail of cursor_down and cursor_up once the line is chosen:
\* clamp the byte to the line, then snap back to a character boundary
ClampAndSnap(r, c) ==
  LET line == RopeLine(r, c.line)
      c2   == clamp_cursor_max(c, Len(line))
      prev == line_prev_char_index(r, c2)
  IN  IF LinePanics(r, c.line) THEN Outcome(r, c, Unit, TRUE)
      ELSE IF IsCharBoundary(line, c2.byte) THEN Outcome(r, c2, Unit, FALSE)
      ELSE IF prev = -1 THEN Outcome(r, c2, Unit, TRUE)
      ELSE Outcome(r, Cursor(c2.line, IF prev = -2 THEN 0 ELSE prev), Unit, FALSE)

\* SimpleBuffer::cursor_down
cursor_down(r, c) ==
  ClampAndSnap(r, Cursor(Min(c.line + 1, SatSub(RopeLineLen(r), 1)), c.byte))

\* SimpleBuffer::cursor_up
cursor_up(r, c) == ClampAndSnap(r, Cursor(SatSub(c.line, 1), c.byte))

\* SimpleBuffer::cursor_left
cursor_left(r, c) ==
  LET prev == global_prev_char_index(r, c)
  IN  IF c.byte = 0 THEN Outcome(r, c, Unit, FALSE)
      ELSE IF prev < 0 THEN Outcome(r, c, Unit, TRUE)
      ELSE Outcome(r, Cursor(c.line, SatSub(prev, ByteOfLine(r, c.line))),
                   Unit, FALSE)

\* SimpleBuffer::cursor_right
cursor_right(r, c) ==
  LET next == line_next_char_index(r, c)
  IN  IF next = -1 THEN Outcome(r, c, Unit, TRUE)
      ELSE IF next = -2 THEN Outcome(r, c, Unit, FALSE)
      ELSE Outcome(r, Cursor(c.line, next), Unit, FALSE)

\* ------------------------------------------------ SimpleBuffer: the machine

\* texts insert() is called with
InsertTexts == TextsUpTo(Chars, MaxTextChars)

\* those without a carriage return
LfTexts == TextsUpTo(LfChars, MaxTextChars)

\* contents of the file read by SimpleBuffer::open
InitDocs == {d \in TextsUpTo(Chars, MaxInitLen) : Len(d) <= MaxInitLen}

\* those whose line breaks are all bare LF
LfDocs == {d \in TextsUpTo(LfChars, MaxInitLen) : Len(d) <= MaxInitLen}

\* a SimpleBuffer on its own has no parse tree
NoTree == [text |-> <<>>, edit |-> NoEdit]

NoTrip ==
  [on |-> FALSE, rope |-> <<>>, cursor |-> Cursor(0, 0), text |-> <<>>,
   left |-> 0]

\* no Buffer yet, no thread running
NoThreads ==
  [buffer |-> "none", writer |-> "none", reader |-> "none",
   msg |-> [kind |-> "None"], init_result |-> [kind |-> "None"],
   got |-> [kind |-> "None"], queued_at_open |-> 0, lock |-> "none"]

\* a child process that has answered nothing and runs
NoChild ==
  [answered |-> {}, notified |-> FALSE, other |-> FALSE, killed |-> FALSE,
   repeated |-> FALSE]

\* the frame reader at rest
NoIo ==
  [stream |-> <<>>, pos |-> 0, line |-> <<>>, content_length |-> -2,
   bodies |-> <<>>, got |-> <<>>, pc |-> "idle"]

\* no projector made
NoHighlights == [made |-> FALSE]

\* Lsp::new: counter 0, empty table, nothing written, read or delivered
NoSession ==
  /\ submitted = <<>>
  /\ next_id = 0
  /\ sent_requests = {}
  /\ writer = <<>>
  /\ reader = <<>>
  /\ sink = <<>>
  /\ child = NoChild
  /\ log = <<>>

\* the call that produced the current state: its name, its argument, the
\* rope and cursor it started from and what it returned
Call(op, text, ret) ==
  [op |-> op, text |-> text, rope |-> rope, cursor |-> cursor, ret |-> ret]

\* SimpleBuffer::open: cursor {0,0} on the text of a file out of docs
Opened(docs) ==
  /\ io = NoIo
  /\ hl = NoHighlights
  /\ rope \in docs
  /\ cursor = Cursor(0, 0)
  /\ panicked = FALSE
  /\ last = [op |-> "open", text |-> <<>>, rope |-> rope,
             cursor |-> Cursor(0, 0), ret |-> Unit]
  /\ trip = NoTrip
  /\ tree = NoTree
  /\ lsp = FALSE
  /\ chan = <<>>
  /\ NoSession
  /\ pc = NoThreads
  /\ file = <<>>

\* the effect of one SimpleBuffer call on rope, cursor, panicked and last
Apply(op, text, o) ==
  /\ rope' = o.rope
  /\ cursor' = o.cursor
  /\ panicked' = o.panic
  /\ last' = Call(op, text, o.ret)

\* an insert opens a round trip: CharCount(text) calls of back() are due
TripAfterInsert(text, o) ==
  IF o.panic THEN NoTrip
  ELSE [on |-> TRUE, rope |-> rope, cursor |-> cursor, text |-> text,
        left |-> CharCount(text)]

\* a back() directly after the insert or after the backs that followed it
TripAfterBack(o) ==
  IF trip.on /\ trip.left > 0 /\ ~o.panic
    THEN [trip EXCEPT !.left = trip.left - 1]
    ELSE NoTrip

Insert(text) ==
  /\ ~panicked
  /\ Len(rope) + Len(text) <= MaxDocLen
  /\ LET o == insert(rope, cursor, text)
     IN  Apply("insert", text, o) /\ trip' = TripAfterInsert(text, o)
  /\ UNCHANGED <<tree, lsp, chan, submitted>>
  /\ UNCHANGED sessionVars

Back ==
  /\ ~panicked
  /\ LET o == back(rope, cursor)
     IN  Apply("back", <<>>, o) /\ trip' = TripAfterBack(o)
  /\ UNCHANGED <<tree, lsp, chan, submitted>>
  /\ UNCHANGED sessionVars

CursorUp ==
  /\ ~panicked
  /\ Apply("cursor_up", <<>>, cursor_up(rope, cursor))
  /\ trip' = NoTrip
  /\ UNCHANGED <<tree, lsp, chan, submitted>>
  /\ UNCHANGED sessionVars

CursorDown ==
  /\ ~panicked
  /\ Apply("cursor_down", <<>>, cursor_down(rope, cursor))
  /\ trip' = NoTrip
  /\ UNCHANGED <<tree, lsp, chan, submitted>>
  /\ UNCHANGED sessionVars

CursorLeft ==
  /\ ~panicked
  /\ Apply("cursor_left", <<>>, cursor_left(rope, cursor))
  /\ trip' = NoTrip
  /\ UNCHANGED <<tree, lsp, chan, submitted>>
  /\ UNCHANGED sessionVars

CursorRight ==
  /\ ~panicked
  /\ Apply("cursor_right", <<>>, cursor_right(rope, cursor))
  /\ trip' = NoTrip
  /\ UNCHANGED <<tree, lsp, chan, submitted>>
  /\ UNCHANGED sessionVars

Next ==
  \/ \E text \in InsertTexts : Insert(text)
  \/ Back
  \/ CursorUp
  \/ CursorDown
  \/ CursorLeft
  \/ CursorRight

Init == Opened(InitDocs)

Spec == Init /\ [][Next]_vars

\* the same machine on files and texts without carriage returns
LfInit == Opened(LfDocs)

LfNext ==
  \/ \E text \in LfTexts : Insert(text)
  \/ Back
  \/ CursorUp
  \/ CursorDown
  \/ CursorLeft
  \/ CursorRight

LfSpec == LfInit /\ [][LfNext]_vars

\* files as they are opened, walked and backspaced without any insert
NavNext ==
  \/ Back
  \/ CursorUp
  \/ CursorDown
  \/ CursorLeft
  \/ CursorRight

NavSpec == Init /\ [][NavNext]_vars

\* the same on the files without carriage returns
LfNavSpec == LfInit /\ [][NavNext]_vars

\* ------------------------------------------------- Buffer: the controller

\* most requests waiting in the editor-to-writer channel
MaxChan == 2

\* From<CursorWithCharacter> for tree_sitter::Point
Point(cwc) == [row |-> cwc.byte, column |-> cwc.line]

\* a descriptor whose old end is taken from the wrong side of the edit
to_ts_swapped(edit) ==
  IF edit.kind = "Insert"
    THEN [start_byte |-> edit.start_byte, old_end_byte |-> edit.new_end_byte,
          new_end_byte |-> edit.start_byte,
          start_position |-> Point(edit.start),
          old_end_position |-> Point(edit.new_end),
          new_end_position |-> Point(edit.start)]
    ELSE [start_byte |-> edit.from_byte, old_end_byte |-> edit.from_byte,
          new_end_byte |-> edit.to_byte,
          start_position |-> Point(edit.from),
          old_end_position |-> Point(edit.from),
          new_end_position |-> Point(edit.to)]

\* Edit::to_ts
to_ts(edit) ==
  IF edit.kind = "Insert"
    THEN [start_byte |-> edit.start_byte, old_end_byte |-> edit.start_byte,
          new_end_byte |-> edit.new_end_byte,
          start_position |-> Point(edit.start),
          old_end_position |-> Point(edit.start),
          new_end_position |-> Point(edit.new_end)]
    ELSE [start_byte |-> edit.from_byte, old_end_byte |-> edit.to_byte,
          new_end_byte |-> edit.from_byte,
          start_position |-> Point(edit.from),
          old_end_position |-> Point(edit.to),
          new_end_position |-> Point(edit.from)]

\* ts::tree as called by Buffer::new: a tree of the rope, built from scratch
NewTree(r) == [text |-> r, edit |-> NoEdit]

\* Buffer::tree_refresh: the previous tree patched with the edit, then the
\* rope reparsed with it as the hint
tree_refresh(r, edit) == [text |-> r, edit |-> to_ts(edit)]

Position(line, character) == [line |-> line, character |-> character]

\* a change named by the cursors' byte offsets, not their character indices
DidChangeOfBytes(edit, text) ==
  IF edit.kind = "Insert"
    THEN [kind |-> "DidChange",
          range |-> [start |-> Position(edit.start.line, edit.start.byte),
                     end   |-> Position(edit.start.line, edit.start.byte)],
          text |-> text]
    ELSE [kind |-> "DidChange",
          range |-> [start |-> Position(edit.from.line, edit.from.byte),
                     end   |-> Position(edit.to.line, edit.to.byte)],
          text |-> <<>>]

\* the request Buffer::lsp_for_edit derives from an edit
DidChangeOf(edit, text) ==
  IF edit.kind = "Insert"
    THEN [kind |-> "DidChange",
          range |-> [start |-> Position(edit.start.line, edit.start.character),
                     end   |-> Position(edit.start.line, edit.start.character)],
          text |-> text]
    ELSE [kind |-> "DidChange",
          range |-> [start |-> Position(edit.from.line, edit.from.character),
                     end   |-> Position(edit.to.line, edit.to.character)],
          text |-> <<>>]

\* the event enqueued twice
lsp_event_twice(q, session, event) ==
  IF session THEN Append(Append(q, event), event) ELSE q

\* Buffer::lsp_event: enqueue for the session's writer, or nothing without
\* a session
lsp_event(q, session, event) == IF session THEN Append(q, event) ELSE q

\* an edit that is not passed on
lsp_for_edit_skip(q, session, edit, text) == q

\* Buffer::lsp_for_edit
lsp_for_edit(q, session, edit, text) ==
  lsp_event(q, session, DidChangeOf(edit, text))

\* files Buffer::create is given
CtlDocs ==
  {<<>>, <<97>>, <<97, Nl>>, <<97, Nl, 97>>, <<195, 169, Nl, 97>>,
   <<97, 97, Nl, 195, 169>>, <<97, 13, Nl, 97>>}

\* the threads of a Buffer that Buffer::create has returned: with a session
\* the writer thread is about to run Lsp::init
Created(session) ==
  [NoThreads EXCEPT !.buffer = "created",
                    !.writer = IF session THEN "initialize" ELSE "none"]

\* Buffer::create has returned: the tree is parsed from the file's text; the
\* session is there for a file the language filter accepts
CtlInit ==
  /\ rope \in CtlDocs
  /\ cursor = Cursor(0, 0)
  /\ panicked = FALSE
  /\ last = [op |-> "open", text |-> <<>>, rope |-> rope,
             cursor |-> Cursor(0, 0), ret |-> Unit]
  /\ trip = NoTrip
  /\ tree = NewTree(rope)
  /\ lsp \in BOOLEAN
  /\ chan = <<>>
  /\ NoSession
  /\ pc = Created(lsp)
  /\ io = NoIo
  /\ hl = NoHighlights
  /\ file = IF lsp THEN rope ELSE <<>>

\* most requests and notifications the editor enqueues in one session
MaxSubmitted == 2

\* the channel is unbounded; the model stops enqueuing at MaxChan waiting
\* and MaxSubmitted in all
ChanHasRoom ==
  ~lsp \/ (Len(chan) < MaxChan /\ Len(submitted) < MaxSubmitted)

\* Sender::send fails once the writer thread has dropped the receiver, and
\* editor::lsp::Lsp::send expects it not to
SendPanics == lsp /\ pc.writer = "dead"

\* the outcome of a controller call whose SimpleBuffer call returned o and
\* which then sends to the session if sends is TRUE
Sent(o, sends) ==
  IF ~o.panic /\ sends /\ SendPanics THEN [o EXCEPT !.panic = TRUE] ELSE o

\* the change enqueued and the tree left as it was
AfterEditStale(o, text) ==
  IF o.panic \/ o.ret.kind = "None"
    THEN UNCHANGED <<tree, chan, submitted>>
    ELSE /\ UNCHANGED tree
         /\ IF SendPanics
              THEN UNCHANGED <<chan, submitted>>
              ELSE /\ chan' = lsp_for_edit(chan, lsp, o.ret, text)
                   /\ submitted' = lsp_for_edit(submitted, lsp, o.ret, text)

\* Buffer::insert and Buffer::back after the SimpleBuffer call returned o:
\* refresh the tree and enqueue the change, unless the call panicked or
\* returned None
AfterEdit(o, text) ==
  IF o.panic \/ o.ret.kind = "None"
    THEN UNCHANGED <<tree, chan, submitted>>
    ELSE /\ tree' = tree_refresh(o.rope, o.ret)
         /\ IF SendPanics
              THEN UNCHANGED <<chan, submitted>>
              ELSE /\ chan' = lsp_for_edit(chan, lsp, o.ret, text)
                   /\ submitted' = lsp_for_edit(submitted, lsp, o.ret, text)

\* action(buffer, Action::NewLine): Buffer::insert("\n")
ActNewLine ==
  /\ ~panicked
  /\ pc.buffer = "created"
  /\ ChanHasRoom
  /\ Len(rope) + 1 <= MaxDocLen
  /\ LET o == insert(rope, cursor, <<Nl>>)
     IN  Apply("insert", <<Nl>>, Sent(o, TRUE)) /\ AfterEdit(o, <<Nl>>)
  /\ UNCHANGED <<trip, lsp>>
  /\ UNCHANGED sessionVars

\* action(buffer, Action::Back): Buffer::back
ActBack ==
  /\ ~panicked
  /\ pc.buffer = "created"
  /\ ChanHasRoom
  /\ LET o == back(rope, cursor)
     IN  Apply("back", <<>>, Sent(o, o.ret.kind # "None"))
         /\ AfterEdit(o, <<>>)
  /\ UNCHANGED <<trip, lsp>>
  /\ UNCHANGED sessionVars

ActUp ==
  /\ ~panicked
  /\ pc.buffer = "created"
  /\ Apply("cursor_up", <<>>, cursor_up(rope, cursor))
  /\ UNCHANGED <<trip, tree, lsp, chan, submitted>>
  /\ UNCHANGED sessionVars

ActDown ==
  /\ ~panicked
  /\ pc.buffer = "created"
  /\ Apply("cursor_down", <<>>, cursor_down(rope, cursor))
  /\ UNCHANGED <<trip, tree, lsp, chan, submitted>>
  /\ UNCHANGED sessionVars

ActLeft ==
  /\ ~panicked
  /\ pc.buffer = "created"
  /\ Apply("cursor_left", <<>>, cursor_left(rope, cursor))
  /\ UNCHANGED <<trip, tree, lsp, chan, submitted>>
  /\ UNCHANGED sessionVars

ActRight ==
  /\ ~panicked
  /\ pc.buffer = "created"
  /\ Apply("cursor_right", <<>>, cursor_right(rope, cursor))
  /\ UNCHANGED <<trip, tree, lsp, chan, submitted>>
  /\ UNCHANGED sessionVars

\* action(buffer, Action::Hover) and action(buffer, Action::Complete): a
\* request for the cursor's line and character index
ActRequest(kind) ==
  /\ ~panicked
  /\ pc.buffer = "created"
  /\ ChanHasRoom
  /\ LET ch == line_char_idx(rope, cursor)
         event == [kind |-> kind, line |-> cursor.line, character |-> ch]
     IN  IF ch < 0 \/ SendPanics
           THEN Apply(kind, <<>>, Outcome(rope, cursor, Unit, TRUE))
                /\ UNCHANGED <<chan, submitted>>
           ELSE Apply(kind, <<>>, Outcome(rope, cursor, Unit, FALSE))
                /\ chan' = lsp_event(chan, lsp, event)
                /\ submitted' = lsp_event(submitted, lsp, event)
  /\ UNCHANGED <<trip, tree, lsp>>
  /\ UNCHANGED sessionVars

ActHover == ActRequest("Hover")

ActComplete == ActRequest("Completion")

\* action(buffer, Action::InsertMode | Action::NormalMode): todo!()
ActTodo ==
  /\ ~panicked
  /\ pc.buffer = "created"
  /\ Apply("todo", <<>>, Outcome(rope, cursor, Unit, TRUE))
  /\ UNCHANGED <<trip, tree, lsp, chan, submitted>>
  /\ UNCHANGED sessionVars

CtlNext ==
  \/ ActUp
  \/ ActDown
  \/ ActLeft
  \/ ActRight
  \/ ActHover
  \/ ActComplete
  \/ ActBack
  \/ ActNewLine
  \/ ActTodo

CtlSpec == CtlInit /\ [][CtlNext]_vars

\* ------------------------------------------------ lsp::Lsp: the session

\* the counter left as it is
SameId(n) == n

\* self.next_id += 1 on a u32; a session of at most MaxSubmitted + 1
\* requests stays far below u32::MAX, where the addition would overflow
NextId(n) == n + 1

\* a frame whose body is RequestMessage {jsonrpc, id, method, params}
RequestMessage(id, method, params) ==
  [jsonrpc |-> "2.0", id |-> id, method |-> method, params |-> params]

\* a frame whose body is NotificationMessage {jsonrpc, method, params}
NotificationMessage(method, params) ==
  [jsonrpc |-> "2.0", method |-> method, params |-> params]

IsRequest(f) == "id" \in DOMAIN f

\* the entry not inserted
TableInsertLater(table, id, kind) == table

\* the Pending Request Table: HashMap::insert replaces an entry of the same id
TableInsert(table, id, kind) ==
  {e \in table : e.id # id} \cup {[id |-> id, kind |-> kind]}

TableHas(table, id) == \E e \in table : e.id = id

\* the kind of the oldest entry, whatever the id asked for
TableOldest(table, id) ==
  (CHOOSE e \in table : \A e2 \in table : e.id <= e2.id).kind

\* HashMap::get on an id the table holds
TableGet(table, id) == (CHOOSE e \in table : e.id = id).kind

\* every entry up to this id dropped
TableRemoveUpTo(table, id) == {e \in table : e.id > id}

\* HashMap::remove
TableRemove(table, id) == {e \in table : e.id # id}

\* frames of the child: a response to the request with this id, whose
\* result has the shape the answered method calls for, and a notification
ResponseFrame(id, method) ==
  [type |-> "Response", id |-> id, result |-> method]

ProgressFrame == [type |-> "Notification", method |-> "$/progress"]

\* the LspResultData built for a response to a request of this kind
LspResultData(kind, result) ==
  IF kind = "Initialize" THEN [kind |-> "Initialized"]
  ELSE [kind |-> kind, result |-> result]

\* jsonrpc::read once the body is in: a frame with an id and no method is a
\* response, read as the kind the table holds for its id; the lookup of an
\* id the table does not hold panics; a frame without an id is a
\* notification if its method is "$/progress", and Unknown otherwise
read(f, table) ==
  IF f.type = "Response"
    THEN IF TableHas(table, f.id)
           THEN [kind |-> "Response", id |-> f.id,
                 result |-> LspResultData(TableGet(table, f.id), f.result)]
           ELSE [kind |-> "Panic"]
  ELSE IF f.method = "$/progress"
    THEN [kind |-> "Notification", params |-> f.method]
  ELSE [kind |-> "Unknown", value |-> f]

\* any frame taken as the answer to initialize
InitAcceptsAll(result) == TRUE

\* what Lsp::init accepts as the answer to initialize
InitAccepts(result) == result.kind = "Response"

\* the newest message taken first
RecvLast(q) == [event |-> q[Len(q)], rest |-> SubSeq(q, 1, Len(q) - 1)]

\* Receiver::recv on a channel that holds something
Recv(q) == [event |-> Head(q), rest |-> Tail(q)]

\* the method of a request kind
MethodOf(kind) ==
  IF kind = "Hover" THEN "textDocument/hover" ELSE "textDocument/completion"

\* Buffer::create: Err without a Buffer if the workspace path cannot be
\* canonicalized; for a supported file Lsp::run spawns the child on the
\* calling thread and expects that to work, then starts the writer thread
Create(workspace, supported, spawns) ==
  /\ ~panicked
  /\ pc.buffer = "none"
  /\ last' = [op |-> "create", text |-> <<>>, rope |-> rope, cursor |-> cursor,
              ret |-> [kind |-> IF workspace THEN "Ok" ELSE "Err",
                       supported |-> supported, spawns |-> spawns]]
  /\ IF ~workspace
       THEN UNCHANGED <<panicked, lsp, tree, pc, file>>
     ELSE IF supported /\ ~spawns
       THEN panicked' = TRUE /\ UNCHANGED <<lsp, tree, pc, file>>
     ELSE /\ lsp' = supported
          /\ tree' = NewTree(rope)
          /\ pc' = Created(supported)
          /\ file' = IF supported THEN rope ELSE <<>>
          /\ UNCHANGED panicked
  /\ UNCHANGED <<rope, cursor, trip, chan, submitted>>
  /\ UNCHANGED <<next_id, sent_requests, writer, reader, sink, child, io, hl, log>>

\* what the session's threads leave alone
editorVars == <<rope, cursor, panicked, last, trip, tree, lsp, submitted>>

\* Lsp::init, next_id for the initialize request
InitNextId ==
  /\ ~panicked
  /\ pc.writer = "initialize"
  /\ sent_requests' = TableInsert(sent_requests, next_id, "Initialize")
  /\ next_id' = NextId(next_id)
  /\ pc' = [pc EXCEPT !.writer = "write_initialize",
                      !.msg = RequestMessage(next_id, "initialize", "init_params")]
  /\ UNCHANGED editorVars
  /\ UNCHANGED <<chan, writer, reader, sink, child, file, io, hl, log>>

\* Lsp::init, write_immediate(&initialize_request)
InitWriteInitialize ==
  /\ ~panicked
  /\ pc.writer = "write_initialize"
  /\ writer' = Append(writer, pc.msg)
  /\ pc' = [pc EXCEPT !.writer = "read_initialize", !.msg = [kind |-> "None"]]
  /\ UNCHANGED editorVars
  /\ UNCHANGED <<chan, next_id, sent_requests, reader, sink, child, file, io, hl, log>>

\* Lsp::init, jsonrpc::read and the match on its result: anything but a
\* response panics the thread, which drops the channel's receiver
InitRead ==
  /\ ~panicked
  /\ pc.writer = "read_initialize"
  /\ reader # <<>>
  /\ reader' = Tail(reader)
  /\ LET result == read(Head(reader), sent_requests)
     IN  pc' = [pc EXCEPT !.writer = IF InitAccepts(result) THEN "initialized"
                                     ELSE "dead",
                          !.init_result = result]
  /\ UNCHANGED editorVars
  /\ UNCHANGED <<chan, next_id, sent_requests, writer, sink, child, file, io, hl, log>>

\* Lsp::init, write_immediate(&initialized_notification)
InitWriteInitialized ==
  /\ ~panicked
  /\ pc.writer = "initialized"
  /\ writer' = Append(writer, NotificationMessage("initialized", "{}"))
  /\ pc' = [pc EXCEPT !.writer = "did_open"]
  /\ UNCHANGED editorVars
  /\ UNCHANGED <<chan, next_id, sent_requests, reader, sink, child, file, io, hl, log>>

\* Lsp::init, the didOpen notification with the text read from the file;
\* Lsp::run then starts the reader thread and enters run_sender
InitWriteDidOpen ==
  /\ ~panicked
  /\ pc.writer = "did_open"
  /\ writer' = Append(writer,
                 NotificationMessage("textDocument/didOpen",
                                     [version |-> 1, text |-> file]))
  /\ pc' = [pc EXCEPT !.writer = "recv", !.reader = "read",
                      !.queued_at_open = Len(chan)]
  /\ UNCHANGED editorVars
  /\ UNCHANGED <<chan, next_id, sent_requests, reader, sink, child, file, io, hl, log>>

\* Lsp::run_sender, recv and the building of the message: a request takes
\* the next id, a change notification takes none
SenderRecv ==
  /\ ~panicked
  /\ pc.writer = "recv"
  /\ chan # <<>>
  /\ chan' = Recv(chan).rest
  /\ LET event == Recv(chan).event
     IN  IF event.kind = "DidChange"
           THEN /\ pc' = [pc EXCEPT !.writer = "write",
                            !.msg = NotificationMessage(
                                      "textDocument/didChange",
                                      [version |-> 0, range |-> event.range,
                                       text |-> event.text])]
                /\ UNCHANGED <<next_id, sent_requests>>
           ELSE /\ sent_requests' = TableInsert(sent_requests, next_id, event.kind)
                /\ next_id' = NextId(next_id)
                /\ pc' = [pc EXCEPT !.writer = "write",
                            !.msg = RequestMessage(
                                      next_id, MethodOf(event.kind),
                                      Position(event.line, event.character))]
  /\ UNCHANGED editorVars
  /\ UNCHANGED <<writer, reader, sink, child, file, io, hl, log>>

\* Lsp::run_sender, write_immediate(&message): one frame, then a flush
SenderWrite ==
  /\ ~panicked
  /\ pc.writer = "write"
  /\ writer' = Append(writer, pc.msg)
  /\ pc' = [pc EXCEPT !.writer = "recv", !.msg = [kind |-> "None"]]
  /\ UNCHANGED editorVars
  /\ UNCHANGED <<chan, next_id, sent_requests, reader, sink, child, file, io, hl, log>>

\* the reader thread, jsonrpc::read of the next frame of the child
ReaderRead ==
  /\ ~panicked
  /\ pc.reader = "read"
  /\ reader # <<>>
  /\ reader' = Tail(reader)
  /\ LET result == read(Head(reader), sent_requests)
     IN  pc' = [pc EXCEPT
                  !.reader = IF result.kind = "Panic" THEN "dead"
                             ELSE IF result.kind = "Response" THEN "remove"
                             ELSE IF result.kind = "Unknown" THEN "log"
                             ELSE "send",
                  !.got = [result |-> result, frame |-> Head(reader)]]
  /\ UNCHANGED editorVars
  /\ UNCHANGED <<chan, next_id, sent_requests, writer, sink, child, file, io, hl, log>>

\* the reader thread, sent_requests.remove(&id).expect(..)
ReaderRemove ==
  /\ ~panicked
  /\ pc.reader = "remove"
  /\ IF TableHas(sent_requests, pc.got.result.id)
       THEN /\ sent_requests' = TableRemove(sent_requests, pc.got.result.id)
            /\ pc' = [pc EXCEPT !.reader = "send"]
       ELSE /\ pc' = [pc EXCEPT !.reader = "dead"]
            /\ UNCHANGED sent_requests
  /\ UNCHANGED editorVars
  /\ UNCHANGED <<chan, next_id, writer, reader, sink, child, file, io, hl, log>>

\* what the sink is handed for a read result
LspResponse(result) ==
  IF result.kind = "Response"
    THEN [type |-> "Result", data |-> result.result]
    ELSE [type |-> "Notification", params |-> result.params]

\* the reader thread, Self::send(&sender, ..); each entry of sink keeps the
\* frame it was made from
ReaderSend ==
  /\ ~panicked
  /\ pc.reader = "send"
  /\ sink' = Append(sink, [event |-> LspResponse(pc.got.result),
                           frame |-> pc.got.frame])
  /\ pc' = [pc EXCEPT !.reader = "read", !.got = [kind |-> "None"]]
  /\ UNCHANGED editorVars
  /\ UNCHANGED <<chan, next_id, sent_requests, writer, reader, child, file, io, hl, log>>

\* the requests the child has been sent and has not answered
Unanswered == {i \in 1..Len(writer) :
                 IsRequest(writer[i]) /\ writer[i].id \notin child.answered}

\* the child answers one of the requests it has, in any order
ChildRespond ==
  /\ ~panicked
  /\ ~child.killed
  /\ \E i \in Unanswered :
       /\ reader' = Append(reader, ResponseFrame(writer[i].id, writer[i].method))
       /\ child' = [child EXCEPT !.answered = @ \cup {writer[i].id}]
  /\ UNCHANGED editorVars
  /\ UNCHANGED <<chan, next_id, sent_requests, writer, sink, pc, file, io, hl, log>>

\* the child sends a progress notification, once, at any time after it has
\* been written to
ChildNotify ==
  /\ ~panicked
  /\ ~child.killed
  /\ writer # <<>>
  /\ ~child.notified
  /\ reader' = Append(reader, ProgressFrame)
  /\ child' = [child EXCEPT !.notified = TRUE]
  /\ UNCHANGED editorVars
  /\ UNCHANGED <<chan, next_id, sent_requests, writer, sink, pc, file, io, hl, log>>

\* the reader loop, dbg! of a frame that is neither a response nor a
\* progress notification; the frame is dropped
ReaderLog ==
  /\ ~panicked
  /\ pc.reader = "log"
  /\ log' = Append(log, pc.got.frame)
  /\ pc' = [pc EXCEPT !.reader = "read", !.got = [kind |-> "None"]]
  /\ UNCHANGED editorVars
  /\ UNCHANGED <<chan, next_id, sent_requests, writer, reader, sink, child,
                 file, io, hl>>

\* the reader loop, jsonrpc::read at the end of the child's output:
\* read_line returns 0 and the thread panics
ReaderEof ==
  /\ ~panicked
  /\ pc.reader = "read"
  /\ reader = <<>>
  /\ child.killed
  /\ pc' = [pc EXCEPT !.reader = "dead"]
  /\ UNCHANGED editorVars
  /\ UNCHANGED <<chan, next_id, sent_requests, writer, reader, sink, child,
                 file, io, hl, log>>

\* the Buffer is dropped, and with it the only Sender of the channel
Teardown ==
  /\ ~panicked
  /\ pc.buffer = "created"
  /\ pc' = [pc EXCEPT !.buffer = "dropped"]
  /\ UNCHANGED editorVars
  /\ UNCHANGED <<chan, next_id, sent_requests, writer, reader, sink, child,
                 file, io, hl, log>>

\* Lsp::run_sender, recv on an empty channel without a Sender: the loop
\* ends and Lsp::run kills the child
SenderClosed ==
  /\ ~panicked
  /\ pc.writer = "recv"
  /\ chan = <<>>
  /\ pc.buffer = "dropped"
  /\ child' = [child EXCEPT !.killed = TRUE]
  /\ pc' = [pc EXCEPT !.writer = "done"]
  /\ UNCHANGED editorVars
  /\ UNCHANGED <<chan, next_id, sent_requests, writer, reader, sink,
                 file, io, hl, log>>

\* the child sends a notification of a method other than "$/progress", once
ChildOther ==
  /\ ~panicked
  /\ ~child.killed
  /\ writer # <<>>
  /\ ~child.other
  /\ reader' = Append(reader, [type |-> "Notification",
                               method |-> "textDocument/publishDiagnostics"])
  /\ child' = [child EXCEPT !.other = TRUE]
  /\ UNCHANGED editorVars
  /\ UNCHANGED <<chan, next_id, sent_requests, writer, sink, pc, file, io, hl, log>>

\* files the whole system is run on
SysDocs == {<<195, 169, Nl>>}

SysInit == Opened(SysDocs)

SysNext ==
  \/ \E workspace, supported, spawns \in BOOLEAN :
       Create(workspace, supported, spawns)
  \/ ActRight
  \/ ActHover
  \/ ActComplete
  \/ ActBack
  \/ ActNewLine
  \/ InitNextId
  \/ InitWriteInitialize
  \/ InitRead
  \/ InitWriteInitialized
  \/ InitWriteDidOpen
  \/ SenderRecv
  \/ SenderWrite
  \/ ReaderRead
  \/ ReaderRemove
  \/ ReaderSend
  \/ ChildRespond
  \/ ChildNotify

\* Buffer::create and then the editor thread, the session's two threads and
\* the child process, interleaved
SysSpec == SysInit /\ [][SysNext]_vars

\* a file with a CR LF line ending: "a\r\nb"
CrLfDocs == {<<97, 13, Nl, 98>>}

CrLfInit == Opened(CrLfDocs)

\* the whole system with the cursor also moved down
CrLfNext ==
  \/ SysNext
  \/ ActDown

CrLfSpec == CrLfInit /\ [][CrLfNext]_vars

\* the steps of the writer thread and of the reader thread
WriterStep ==
  \/ InitNextId
  \/ InitWriteInitialize
  \/ InitRead
  \/ InitWriteInitialized
  \/ InitWriteDidOpen
  \/ SenderRecv
  \/ SenderWrite
  \/ SenderClosed

ReaderStep ==
  \/ ReaderRead
  \/ ReaderRemove
  \/ ReaderSend
  \/ ReaderLog
  \/ ReaderEof

\* a thread that can take a step takes one: each runs on its own
\* operating-system thread; the child process owes nothing
Threads == WF_vars(WriterStep) /\ WF_vars(ReaderStep)

LiveNext ==
  \/ \E workspace, supported, spawns \in BOOLEAN :
       Create(workspace, supported, spawns)
  \/ ActHover
  \/ ActComplete
  \/ ActNewLine
  \/ InitNextId
  \/ InitWriteInitialize
  \/ InitRead
  \/ InitWriteInitialized
  \/ InitWriteDidOpen
  \/ SenderRecv
  \/ SenderWrite
  \/ ReaderRead
  \/ ReaderRemove
  \/ ReaderSend
  \/ ChildRespond
  \/ ChildNotify

\* the session of an open Buffer with its threads scheduled
LiveSpec == SysInit /\ [][LiveNext]_vars /\ Threads

DownNext ==
  \/ \E workspace, supported, spawns \in BOOLEAN :
       Create(workspace, supported, spawns)
  \/ ActHover
  \/ ActNewLine
  \/ Teardown
  \/ InitNextId
  \/ InitWriteInitialize
  \/ InitRead
  \/ InitWriteInitialized
  \/ InitWriteDidOpen
  \/ SenderRecv
  \/ SenderWrite
  \/ SenderClosed
  \/ ReaderRead
  \/ ReaderRemove
  \/ ReaderSend
  \/ ReaderLog
  \/ ReaderEof
  \/ ChildRespond
  \/ ChildNotify
  \/ ChildOther

\* a session from Buffer::create to the drop of the Buffer and after, with
\* its threads scheduled
DownSpec == SysInit /\ [][DownNext]_vars /\ Threads

\* ------------------------------------- lsp::Lsp: the table's Mutex

\* The session once more, one step per statement around the Mutex of
\* sent_requests.  pc.lock is the thread whose MutexGuard is alive, "none",
\* or "poisoned" after a thread has panicked with its guard alive.

\* where a thread stands once lock() has returned, by where it asked for it
LockAt ==
  [ni_lock |-> "ni_insert", rd_lock |-> "rd_get",
   get_lock |-> "get", rm_lock |-> "rm"]

\* where a thread goes on once its guard is dropped
UnlockAt ==
  [ni_unlock |-> "ni_incr", rd_unlock |-> "rd_match",
   get_unlock |-> "rm_lock", rm_unlock |-> "send"]

\* a guard that outlives its statement
KeepLocked(holder) == holder

\* the temporary MutexGuard is dropped at the end of its statement
Unlock(holder) == "none"

\* sent_requests.lock().unwrap(): waits while another thread holds the
\* guard, panics on a poisoned Mutex
LkAcquire(t) ==
  /\ ~panicked
  /\ pc[t] \in DOMAIN LockAt
  /\ pc.lock \in {"none", "poisoned"}
  /\ pc' = IF pc.lock = "none"
             THEN [pc EXCEPT !.lock = t, ![t] = LockAt[pc[t]]]
             ELSE [pc EXCEPT ![t] = "dead"]
  /\ UNCHANGED editorVars
  /\ UNCHANGED <<chan, next_id, sent_requests, writer, reader, sink, child,
                 file, io, hl, log>>

\* the end of the statement that took the lock
LkRelease(t) ==
  /\ ~panicked
  /\ pc[t] \in DOMAIN UnlockAt
  /\ pc' = [pc EXCEPT !.lock = Unlock(pc.lock), ![t] = UnlockAt[pc[t]]]
  /\ UNCHANGED editorVars
  /\ UNCHANGED <<chan, next_id, sent_requests, writer, reader, sink, child,
                 file, io, hl, log>>

\* Lsp::init calling next_id: let id = self.next_id
LkInitId ==
  /\ ~panicked
  /\ pc.writer = "initialize"
  /\ pc' = [pc EXCEPT !.writer = "ni_lock",
                      !.msg = [id |-> next_id, kind |-> "Initialize",
                               method |-> "initialize",
                               params |-> "init_params"]]
  /\ UNCHANGED editorVars
  /\ UNCHANGED <<chan, next_id, sent_requests, writer, reader, sink, child,
                 file, io, hl, log>>

\* Lsp::run_sender: recv; a change is made into its notification, a request
\* calls next_id: let id = self.next_id
LkRecv ==
  /\ ~panicked
  /\ pc.writer = "recv"
  /\ chan # <<>>
  /\ chan' = Recv(chan).rest
  /\ LET event == Recv(chan).event
     IN  pc' = IF event.kind = "DidChange"
                 THEN [pc EXCEPT !.writer = "write",
                         !.msg = NotificationMessage(
                                   "textDocument/didChange",
                                   [version |-> 0, range |-> event.range,
                                    text |-> event.text])]
                 ELSE [pc EXCEPT !.writer = "ni_lock",
                         !.msg = [id |-> next_id, kind |-> event.kind,
                                  method |-> MethodOf(event.kind),
                                  params |-> Position(event.line,
                                                      event.character)]]
  /\ UNCHANGED editorVars
  /\ UNCHANGED <<next_id, sent_requests, writer, reader, sink, child,
                 file, io, hl, log>>

\* Lsp::next_id: insert(id, data) through the guard
LkInsert ==
  /\ ~panicked
  /\ pc.writer = "ni_insert"
  /\ sent_requests' = TableInsert(sent_requests, pc.msg.id, pc.msg.kind)
  /\ pc' = [pc EXCEPT !.writer = "ni_unlock"]
  /\ UNCHANGED editorVars
  /\ UNCHANGED <<chan, next_id, writer, reader, sink, child, file, io, hl, log>>

\* Lsp::next_id: self.next_id += 1; the caller then builds the request
LkIncrement ==
  /\ ~panicked
  /\ pc.writer = "ni_incr"
  /\ next_id' = NextId(next_id)
  /\ pc' = [pc EXCEPT
              !.writer = IF pc.msg.kind = "Initialize" THEN "write_initialize"
                         ELSE "write",
              !.msg = RequestMessage(pc.msg.id, pc.msg.method, pc.msg.params)]
  /\ UNCHANGED editorVars
  /\ UNCHANGED <<chan, sent_requests, writer, reader, sink, child,
                 file, io, hl, log>>

\* jsonrpc::read up to the classification of the body, on the thread that
\* called it: the header lines, read_exact and from_slice; a response goes
\* on to look its id up, any other frame is already read
LkReadFrame(t) ==
  /\ ~panicked
  /\ (t = "writer" /\ pc.writer = "read_initialize")
       \/ (t = "reader" /\ pc.reader = "read")
  /\ reader # <<>>
  /\ reader' = Tail(reader)
  /\ LET f      == Head(reader)
         result == IF f.type = "Response" THEN [kind |-> "None"]
                   ELSE read(f, sent_requests)
         next   == IF t = "writer"
                     THEN IF f.type = "Response" THEN "rd_lock" ELSE "rd_match"
                     ELSE IF f.type = "Response" THEN "get_lock"
                     ELSE IF result.kind = "Unknown" THEN "log"
                     ELSE "send"
     IN  pc' = IF t = "writer"
                 THEN [pc EXCEPT !.writer = next,
                                 !.init_result = [result |-> result, frame |-> f]]
                 ELSE [pc EXCEPT !.reader = next,
                                 !.got = [result |-> result, frame |-> f]]
  /\ UNCHANGED editorVars
  /\ UNCHANGED <<chan, next_id, sent_requests, writer, sink, child,
                 file, io, hl, log>>

\* jsonrpc::read: *request_ids.lock().unwrap().get(&id).unwrap(); an id the
\* table does not hold panics with the guard alive
LkGet(t) ==
  /\ ~panicked
  /\ (t = "writer" /\ pc.writer = "rd_get") \/ (t = "reader" /\ pc.reader = "get")
  /\ LET f  == IF t = "writer" THEN pc.init_result.frame ELSE pc.got.frame
         ok == TableHas(sent_requests, f.id)
         r  == [result |-> read(f, sent_requests), frame |-> f]
     IN  pc' = IF ~ok THEN [pc EXCEPT ![t] = "dead", !.lock = "poisoned"]
               ELSE IF t = "writer"
                 THEN [pc EXCEPT !.writer = "rd_unlock", !.init_result = r]
               ELSE [pc EXCEPT !.reader = "get_unlock", !.got = r]
  /\ UNCHANGED editorVars
  /\ UNCHANGED <<chan, next_id, sent_requests, writer, reader, sink, child,
                 file, io, hl, log>>

\* Lsp::init: the match on what jsonrpc::read returned
LkInitMatch ==
  /\ ~panicked
  /\ pc.writer = "rd_match"
  /\ pc' = [pc EXCEPT
              !.writer = IF InitAccepts(pc.init_result.result)
                           THEN "initialized" ELSE "dead",
              !.init_result = pc.init_result.result]
  /\ UNCHANGED editorVars
  /\ UNCHANGED <<chan, next_id, sent_requests, writer, reader, sink, child,
                 file, io, hl, log>>

\* the reader loop: remove(&id).expect(..) through the guard
LkRemove ==
  /\ ~panicked
  /\ pc.reader = "rm"
  /\ IF TableHas(sent_requests, pc.got.result.id)
       THEN /\ sent_requests' = TableRemove(sent_requests, pc.got.result.id)
            /\ pc' = [pc EXCEPT !.reader = "rm_unlock"]
       ELSE /\ pc' = [pc EXCEPT !.reader = "dead", !.lock = "poisoned"]
            /\ UNCHANGED sent_requests
  /\ UNCHANGED editorVars
  /\ UNCHANGED <<chan, next_id, writer, reader, sink, child, file, io, hl, log>>

LockNext ==
  \/ \E workspace, supported, spawns \in BOOLEAN :
       Create(workspace, supported, spawns)
  \/ ActHover
  \/ ActComplete
  \/ ActNewLine
  \/ LkInitId
  \/ LkRecv
  \/ \E t \in {"writer", "reader"} : LkAcquire(t)
  \/ LkInsert
  \/ \E t \in {"writer", "reader"} : LkRelease(t)
  \/ LkIncrement
  \/ \E t \in {"writer", "reader"} : LkReadFrame(t)
  \/ \E t \in {"writer", "reader"} : LkGet(t)
  \/ LkInitMatch
  \/ LkRemove
  \/ InitWriteInitialize
  \/ InitWriteInitialized
  \/ InitWriteDidOpen
  \/ SenderWrite
  \/ ReaderSend
  \/ ChildRespond
  \/ ChildNotify

\* the editor thread, the session's two threads at the grain of the lock,
\* and the child process
LockSpec == SysInit /\ [][LockNext]_vars

\* the child answers a request a second time, once: a response whose id is
\* no longer in the table when the first answer has been handled
ChildRepeat ==
  /\ ~panicked
  /\ ~child.killed
  /\ ~child.repeated
  /\ \E i \in 1..Len(writer) :
       /\ IsRequest(writer[i])
       /\ writer[i].id \in child.answered
       /\ reader' = Append(reader, ResponseFrame(writer[i].id, writer[i].method))
  /\ child' = [child EXCEPT !.repeated = TRUE]
  /\ UNCHANGED editorVars
  /\ UNCHANGED <<chan, next_id, sent_requests, writer, sink, pc, file, io, hl, log>>

RepeatNext ==
  \/ LockNext
  \/ ChildRepeat

\* the session at the grain of the lock with a child that repeats itself
RepeatSpec == SysInit /\ [][RepeatNext]_vars

\* ------------------------------------------------- jsonrpc: the framing

\* "Content-Length"
ContentLength ==
  <<67, 111, 110, 116, 101, 110, 116, 45, 76, 101, 110, 103, 116, 104>>

\* ": "
Separator == <<58, 32>>

\* "\r\n"
CrLf == <<13, Nl>>

\* {len} in format!: the decimal digits of a usize
RECURSIVE Decimal(_)
Decimal(n) ==
  IF n < 10 THEN <<48 + n>> ELSE Decimal(n \div 10) \o <<48 + (n % 10)>>

\* the length in characters
CharLen(str) == CharCount(str)

\* str.len(): the length in bytes
StrLen(str) == Len(str)

\* format!("Content-Length: {len}\r\n\r\n{str}") of jsonrpc::request and
\* jsonrpc::notification
Frame(str) ==
  ContentLength \o Separator \o Decimal(StrLen(str)) \o CrLf \o CrLf \o str

\* BufRead::read_line: the bytes from pos up to and including the next LF,
\* or up to the end of what there is
ReadLine(stream, pos) ==
  LET brk == NextBreak(stream, pos)
  IN  Slice(stream, pos, IF brk < Len(stream) THEN brk + 1 ELSE brk)

\* read_line fails on bytes that are not UTF-8
RECURSIVE ValidUtf8(_)
ValidUtf8(s) ==
  IF s = <<>> THEN TRUE
  ELSE IF IsContinuation(s[1]) \/ LenUtf8(s[1]) > Len(s) THEN FALSE
  ELSE /\ \A i \in 2..LenUtf8(s[1]) : IsContinuation(s[i])
       /\ ValidUtf8(Slice(s, LenUtf8(s[1]), Len(s)))

IsSpace(b) == b \in {9, Nl, 11, 12, 13, 32}

\* str::trim
RECURSIVE Trim(_)
Trim(s) ==
  IF s = <<>> THEN s
  ELSE IF IsSpace(s[1]) THEN Trim(Tail(s))
  ELSE IF IsSpace(s[Len(s)]) THEN Trim(Slice(s, 0, Len(s) - 1))
  ELSE s

\* header.split_once(": "): the first separator's offset, -2 for None
RECURSIVE SeparatorAt(_, _)
SeparatorAt(s, i) ==
  IF i + 2 > Len(s) THEN -2
  ELSE IF Slice(s, i, i + 2) = Separator THEN i
  ELSE SeparatorAt(s, i + 1)

RECURSIVE Digits(_, _)
Digits(v, acc) ==
  IF v = <<>> THEN acc
  ELSE IF v[1] < 48 \/ v[1] > 57 THEN -1
  ELSE Digits(Tail(v), 10 * acc + (v[1] - 48))

\* value.parse::<usize>(): digits after an optional '+', -1 for Err
ParseUsize(v) ==
  IF v = <<>> \/ v = <<43>> THEN -1
  ELSE IF v[1] = 43 THEN Digits(Tail(v), 0)
  ELSE Digits(v, 0)

\* the header loop with a line without ": " taken as an error
HeaderLineStrict(state, line) ==
  LET header == Trim(line)
      at     == SeparatorAt(header, 0)
      key    == Slice(header, 0, at)
      value  == Slice(header, at + 2, Len(header))
  IN  IF ~ValidUtf8(line) THEN [state EXCEPT !.pc = "dead"]
      ELSE IF line = CrLf THEN [state EXCEPT !.pc = "body"]
      ELSE IF at >= 0 /\ key = ContentLength
        THEN IF ParseUsize(value) < 0 THEN [state EXCEPT !.pc = "dead"]
             ELSE [state EXCEPT !.content_length = ParseUsize(value)]
      ELSE IF at < 0 THEN [state EXCEPT !.pc = "dead"]
      ELSE state

\* one turn of the header loop of jsonrpc::read on the line it read:
\* the blank line ends the headers, a Content-Length header sets the
\* length, any other line is skipped; a length that does not parse panics
HeaderLine(state, line) ==
  LET header == Trim(line)
      at     == SeparatorAt(header, 0)
      key    == Slice(header, 0, at)
      value  == Slice(header, at + 2, Len(header))
  IN  IF ~ValidUtf8(line) THEN [state EXCEPT !.pc = "dead"]
      ELSE IF line = CrLf THEN [state EXCEPT !.pc = "body"]
      ELSE IF at >= 0 /\ key = ContentLength
        THEN IF ParseUsize(value) < 0 THEN [state EXCEPT !.pc = "dead"]
             ELSE [state EXCEPT !.content_length = ParseUsize(value)]
      ELSE state

\* jsonrpc::read, reader.read_line and the match on the header; the read
\* waits while the child has written nothing more
FrameReadLine ==
  /\ io.pc = "header"
  /\ io.pos < Len(io.stream)
  /\ LET line == ReadLine(io.stream, io.pos)
     IN  io' = HeaderLine([io EXCEPT !.pos = io.pos + Len(line),
                                     !.line = line], line)
  /\ UNCHANGED <<rope, cursor, panicked, last, trip, tree, lsp, chan>>
  /\ UNCHANGED <<submitted, next_id, sent_requests, writer, reader, sink, pc,
                 child, file, hl, log>>

\* jsonrpc::read, content_length.unwrap() and reader.read_exact: the body
\* is the next content_length bytes, and the next call of read starts with
\* no length
FrameReadBody ==
  /\ io.pc = "body"
  /\ io.content_length < 0 \/ io.pos + io.content_length <= Len(io.stream)
  /\ io' = IF io.content_length < 0 THEN [io EXCEPT !.pc = "dead"]
           ELSE [io EXCEPT
                   !.pc = "header", !.line = <<>>, !.content_length = -2,
                   !.pos = io.pos + io.content_length,
                   !.got = Append(io.got, Slice(io.stream, io.pos,
                                                io.pos + io.content_length))]
  /\ UNCHANGED <<rope, cursor, panicked, last, trip, tree, lsp, chan>>
  /\ UNCHANGED <<submitted, next_id, sent_requests, writer, reader, sink, pc,
                 child, file, hl, log>>

\* serialized message bodies: {"id":0}, {"id":10}, {"t":"é"}, {"t":"a: b"},
\* {"t":"\n"} with the newline escaped as serde_json writes it, and
\* {"t":"éé"}
FrameBodies ==
  {<<123, 34, 105, 100, 34, 58, 48, 125>>,
   <<123, 34, 105, 100, 34, 58, 49, 48, 125>>,
   <<123, 34, 116, 34, 58, 34, 195, 169, 34, 125>>,
   <<123, 34, 116, 34, 58, 34, 97, 58, 32, 98, 34, 125>>,
   <<123, 34, 116, 34, 58, 34, 92, 110, 34, 125>>,
   <<123, 34, 116, 34, 58, 34, 195, 169, 195, 169, 34, 125>>}

\* two frames written one after the other, and a reader at the first byte
FrameInit ==
  /\ rope = <<>>
  /\ cursor = Cursor(0, 0)
  /\ panicked = FALSE
  /\ last = [op |-> "open", text |-> <<>>, rope |-> <<>>,
             cursor |-> Cursor(0, 0), ret |-> Unit]
  /\ trip = NoTrip
  /\ tree = NoTree
  /\ lsp = FALSE
  /\ chan = <<>>
  /\ NoSession
  /\ pc = NoThreads
  /\ file = <<>>
  /\ hl = NoHighlights
  /\ \E b1, b2 \in FrameBodies :
       io = [NoIo EXCEPT !.stream = Frame(b1) \o Frame(b2),
                         !.bodies = <<b1, b2>>, !.pc = "header"]

FrameNext ==
  \/ FrameReadLine
  \/ FrameReadBody

FrameSpec == FrameInit /\ [][FrameNext]_vars

\* most lines the child writes before, and after, a Content-Length header
MaxSkipped == 1

\* lines of text without ": ": "warn" ended by LF alone, "é", a line of one
\* space, "a:b", and "Content-Length" without a value
NoSeparatorLines ==
  {<<119, 97, 114, 110, Nl>>,
   <<195, 169>> \o CrLf,
   <<32>> \o CrLf,
   <<97, 58, 98>> \o CrLf,
   ContentLength \o CrLf}

\* headers other than Content-Length: "Content-Type: x", and "X: " with a
\* value that reads "Content-Length: 9"
OtherHeaders ==
  {<<67, 111, 110, 116, 101, 110, 116, 45, 84, 121, 112, 101>>
     \o Separator \o <<120>> \o CrLf,
   <<88>> \o Separator \o ContentLength \o Separator \o <<57>> \o CrLf}

RECURSIVE Concat(_)
Concat(lines) ==
  IF lines = <<>> THEN <<>> ELSE Head(lines) \o Concat(Tail(lines))

\* up to MaxSkipped such lines, one after the other
SkippedSeqs ==
  UNION {[1..n -> NoSeparatorLines \cup OtherHeaders] : n \in 0..MaxSkipped}

\* a frame of a child that writes other lines into its header block
FrameAmong(before, after, str) ==
  Concat(before) \o ContentLength \o Separator \o Decimal(StrLen(str)) \o CrLf
    \o Concat(after) \o CrLf \o str

\* bodies of the frames read among other lines: {"id":0} and {"t":"éé"}
HdrBodies ==
  {<<123, 34, 105, 100, 34, 58, 48, 125>>,
   <<123, 34, 116, 34, 58, 34, 195, 169, 195, 169, 34, 125>>}

\* two such frames, the lines around the second header those of the first
\* in the other order, and a reader at the first byte
HdrInit ==
  /\ rope = <<>>
  /\ cursor = Cursor(0, 0)
  /\ panicked = FALSE
  /\ last = [op |-> "open", text |-> <<>>, rope |-> <<>>,
             cursor |-> Cursor(0, 0), ret |-> Unit]
  /\ trip = NoTrip
  /\ tree = NoTree
  /\ lsp = FALSE
  /\ chan = <<>>
  /\ NoSession
  /\ pc = NoThreads
  /\ file = <<>>
  /\ hl = NoHighlights
  /\ \E b1, b2 \in HdrBodies : \E before, after \in SkippedSeqs :
       io = [NoIo EXCEPT !.stream = FrameAmong(before, after, b1)
                                      \o FrameAmong(after, before, b2),
                         !.bodies = <<b1, b2>>, !.pc = "header"]

HdrNext ==
  \/ FrameReadLine
  \/ FrameReadBody

HdrSpec == HdrInit /\ [][HdrNext]_vars

\* ---------------------------------------- ts::highlight: the projector

\* most captures the query engine hands to one projector
MaxCaptures == 2

\* Color::rgb
rgb(r, g, b) == [r |-> r, g |-> g, b |-> b, a |-> 255]

\* RopeSlice::line_of_byte for an offset within the text
line_of_byte(r, byte) == LineBreaks(Slice(r, 0, byte))

\* query.capture_names(): the tag of each capture index; the query is the
\* caller's, so a tag need not be one the colour table knows
names == <<"string", "variable">>

\* the colour table of syntax_highlight, for the tags of names it holds
map == [kind \in {"string"} |-> rgb(149, 175, 97)]

\* the colour the single-line branch falls back to
Sentinel == rgb(255, 0, 0)

\* sources the projector is run over
HlDocs == {<<97, Nl, 97, Nl, 97>>, <<97, 97, Nl, 97, Nl>>}

\* a capture: the byte range of its node and its index into names
Capture(start_byte, end_byte, index) ==
  [start_byte |-> start_byte, end_byte |-> end_byte, index |-> index]

CapturesOf(source) ==
  {Capture(s, e, i) : s \in 0..Len(source), e \in 0..Len(source),
                      i \in 1..Len(names)}

\* what QueryCursor::captures can yield over a source: nodes inside the
\* text, in ascending start position
CaptureSeqs(source) ==
  {cs \in UNION {[1..n -> {c \in CapturesOf(source) :
                             c.start_byte < c.end_byte}] : n \in 0..MaxCaptures} :
     \A i \in 1..(Len(cs) - 1) : cs[i].start_byte <= cs[i + 1].start_byte}

\* syntax_highlight: the projector starts on the line of the first capture
\* (each capture is taken to be the first of its match), or on line 0
syntax_highlight(source, captures) ==
  LET byte == IF captures # <<>> THEN captures[1].start_byte ELSE 0
  IN  [made |-> TRUE, source |-> source, captures |-> captures, taken |-> 0,
       current |-> IF byte <= Len(source) THEN line_of_byte(source, byte) ELSE 0,
       line |-> FALSE, done |-> FALSE, panic |-> "none", out |-> <<>>,
       ret |-> [kind |-> "Unit"], asked |-> 0, base |-> 0]

\* Peekable::peek on the captures not yet taken
Peek(h) == h.taken < Len(h.captures)

\* LineHighlights::next_line: None once no capture is left, else a
\* LineHighlight that borrows the projector
next_line(h) ==
  IF Peek(h) THEN [h EXCEPT !.line = TRUE, !.ret = [kind |-> "Line"]]
  ELSE [h EXCEPT !.done = TRUE, !.ret = [kind |-> "None"]]

\* one emitted sub-range: which capture, on which value of current
Emitted(h, color, range) ==
  [h EXCEPT !.taken = h.taken + 1,
            !.out = Append(h.out, [capture |-> h.taken + 1, at |-> h.current,
                                   color |-> color, range |-> range]),
            !.ret = [kind |-> "Some", color |-> color, range |-> range]]

\* LineHighlight::next, the branch for a node that ends on another line
\* than it starts on
MultiLine(h, node, line1, line2, start) ==
  LET src   == h.source
      range == IF h.current = line1
                 THEN <<node.start_byte - start, Len(RopeLine(src, line1))>>
               ELSE IF h.current < line2
                 THEN <<0, Len(RopeLine(src, h.current))>>
               ELSE <<0, node.end_byte - ByteOfLine(src, line2)>>
      kind  == names[node.index]
  IN  IF (h.current = line1 /\ LinePanics(src, line1))
           \/ (h.current # line1 /\ h.current < line2 /\ LinePanics(src, h.current))
        THEN [h EXCEPT !.panic = "rope"]
      ELSE IF kind \notin DOMAIN map
        THEN [h EXCEPT !.panic = "color", !.taken = h.taken + 1]
      ELSE [Emitted(h, map[kind], range) EXCEPT !.current = h.current + 1]

\* LineHighlight::next
next(h) ==
  IF ~Peek(h) THEN [h EXCEPT !.ret = [kind |-> "None"]]
  ELSE LET node  == h.captures[h.taken + 1]
           line1 == line_of_byte(h.source, node.start_byte)
           line2 == line_of_byte(h.source, node.end_byte)
           start == ByteOfLine(h.source, line1)
           kind  == names[node.index]
       IN  IF ~(line1 >= h.current) THEN [h EXCEPT !.panic = "assert"]
           ELSE IF line1 # line2 THEN MultiLine(h, node, line1, line2, start)
           ELSE IF line2 > h.current
             THEN [h EXCEPT !.current = h.current + 1, !.ret = [kind |-> "None"]]
           ELSE Emitted(h, IF kind \in DOMAIN map THEN map[kind] ELSE Sentinel,
                        <<node.start_byte - start, node.end_byte - start>>)

\* the caller asks for the next line; asked and base keep the current line
\* and the number of sub-ranges emitted at the time of the request
HlNextLine ==
  /\ hl.made /\ hl.panic = "none" /\ ~hl.line
  /\ hl' = [next_line(hl) EXCEPT !.asked = hl.current, !.base = Len(hl.out)]
  /\ UNCHANGED <<rope, cursor, panicked, last, trip, tree, lsp, chan>>
  /\ UNCHANGED <<submitted, next_id, sent_requests, writer, reader, sink, pc,
                 child, file, io, log>>

\* the caller reads the next sub-range of the line it holds
HlRead ==
  /\ hl.made /\ hl.panic = "none" /\ hl.line
  /\ hl' = next(hl)
  /\ UNCHANGED <<rope, cursor, panicked, last, trip, tree, lsp, chan>>
  /\ UNCHANGED <<submitted, next_id, sent_requests, writer, reader, sink, pc,
                 child, file, io, log>>

\* the caller lets go of the LineHighlight: the end of its for loop or of
\* LineHighlight::consume, or any earlier point
HlDrop ==
  /\ hl.made /\ hl.panic = "none" /\ hl.line
  /\ hl' = [hl EXCEPT !.line = FALSE]
  /\ UNCHANGED <<rope, cursor, panicked, last, trip, tree, lsp, chan>>
  /\ UNCHANGED <<submitted, next_id, sent_requests, writer, reader, sink, pc,
                 child, file, io, log>>

\* Buffer::highlight over a source and the captures of its tree in the window
HlInit ==
  /\ rope = <<>>
  /\ cursor = Cursor(0, 0)
  /\ panicked = FALSE
  /\ last = [op |-> "open", text |-> <<>>, rope |-> <<>>,
             cursor |-> Cursor(0, 0), ret |-> Unit]
  /\ trip = NoTrip
  /\ tree = NoTree
  /\ lsp = FALSE
  /\ chan = <<>>
  /\ NoSession
  /\ pc = NoThreads
  /\ file = <<>>
  /\ io = NoIo
  /\ \E source \in HlDocs : \E captures \in CaptureSeqs(source) :
       hl = syntax_highlight(source, captures)

HlNext ==
  \/ HlNextLine
  \/ HlRead
  \/ HlDrop

\* a caller that has asked for a line goes on reading it and then lets go of
\* it and asks for the next, as the loops of get_rich_text_content and
\* LineHighlight::consume do
HlSpec ==
  /\ HlInit /\ [][HlNext]_vars
  /\ WF_vars(HlNextLine) /\ SF_vars(HlRead) /\ WF_vars(HlDrop)

\* the for loop of get_rich_text_content and of LineHighlight::consume:
\* next is called until it returns None
HlLoopNext ==
  /\ hl.made /\ hl.ret.kind # "None"
  /\ HlRead

\* the loop ends on the first None and the LineHighlight is dropped
HlLoopEnd ==
  /\ hl.made /\ hl.ret.kind = "None"
  /\ HlDrop

DrainNext ==
  \/ HlNextLine
  \/ HlLoopNext
  \/ HlLoopEnd

\* a caller that drains every line it asks for, as the callers in the
\* repository do
DrainSpec == HlInit /\ [][DrainNext]_vars

\* ----------------------------------------------------------------- claims

\* global byte offset of a valid cursor
GlobalByte(r, c) == AfterBreak(r, c.line, 0) + c.byte

\* byte is an offset of the line and not inside one of its characters
OnCharBoundary(line, byte) ==
  /\ byte <= Len(line)
  /\ byte < Len(line) => ~IsContinuation(line[byte + 1])

\* C1: whenever the cursor's line exists, cursor.byte is at most the byte
\* length of that line and does not fall inside a multi-byte character.
C1_CursorOnCharBoundary ==
  cursor.line < RopeLineLen(rope)
    => OnCharBoundary(RopeLine(rope, cursor.line), cursor.byte)

\* C2: cursor.line is strictly below the number of lines line_len() reports.
C2_CursorLineInRange == cursor.line < RopeLineLen(rope)

\* a text without carriage returns
NoCR(text) == \A i \in 1..Len(text) : text[i] # 13

\* C3: after insert(t), t free of carriage returns, and then one back() per
\* character of t, the text and the cursor are those from before the insert.
C3_RoundTrip ==
  (trip.on /\ trip.left = 0 /\ NoCR(trip.text))
    => (rope = trip.rope /\ cursor = trip.cursor)

\* C4: the Insert edit returned by insert(t) starts at the global offset
\* the cursor had, ends at the global offset the cursor has, and its
\* new_end_byte - start_byte is the byte length of t.
C4_InsertEditLength ==
  (last.op = "insert" /\ ~panicked)
    => /\ last.ret.kind = "Insert"
       /\ last.ret.start_byte = GlobalByte(last.rope, last.cursor)
       /\ last.ret.new_end_byte = GlobalByte(rope, cursor)
       /\ last.ret.new_end_byte - last.ret.start_byte = Len(last.text)

\* the bytes a Delete edit names, read from the text before the call
Removed == Slice(last.rope, last.ret.from_byte, last.ret.to_byte)

BackDeleted == last.op = "back" /\ ~panicked /\ last.ret.kind = "Delete"

\* C5: a back() returning a Delete removed exactly [from_byte, to_byte):
\* to_byte - from_byte is the shrinkage of the text, the rest is unchanged,
\* and the removed bytes are the one character just before the cursor or,
\* at the start of a line, the one newline byte before it.
C5_BackRemovesOneUnit ==
  BackDeleted
    => /\ last.ret.to_byte - last.ret.from_byte = Len(last.rope) - Len(rope)
       /\ rope = Slice(last.rope, 0, last.ret.from_byte)
                   \o Slice(last.rope, last.ret.to_byte, Len(last.rope))
       /\ last.ret.to_byte = GlobalByte(last.rope, last.cursor)
       /\ IF last.cursor.byte > 0
            THEN /\ CharCount(Removed) = 1
                 /\ Len(Removed) = LenUtf8(Removed[1])
            ELSE Removed = <<Nl>>

\* the cursor insert(t) is meant to leave
ExpectedInsertCursor(c, text) ==
  IF LineBreaks(text) > 0
    THEN Cursor(c.line + LineBreaks(text),
                Len(text) - AfterLastBreak(text, Len(text)))
    ELSE Cursor(c.line, c.byte + Len(text))

\* C6: insert(t) puts t at the cursor; with k >= 1 newlines in t the cursor
\* goes down k lines to the byte length of what follows t's last newline,
\* otherwise it advances by the byte length of t.
C6_InsertMovesCursor ==
  (last.op = "insert" /\ ~panicked)
    => /\ rope = RopeInsert(last.rope, GlobalByte(last.rope, last.cursor),
                            last.text)
       /\ cursor = ExpectedInsertCursor(last.cursor, last.text)

BackAtLineStart ==
  BackDeleted /\ last.cursor.byte = 0 /\ last.cursor.line > 0

\* C7: back() at the start of line n > 0 joins it to line n-1: the cursor
\* is {n-1, former length of line n-1}, the newline between the two lines
\* is the one byte removed, and the Delete runs from the new cursor to {n,0}.
C7_BackJoinsLines ==
  BackAtLineStart
    => /\ cursor = Cursor(last.cursor.line - 1,
                          Len(RopeLine(last.rope, last.cursor.line - 1)))
       /\ Removed = <<Nl>>
       /\ Len(rope) = Len(last.rope) - 1
       /\ RopeLineLen(rope) = RopeLineLen(last.rope) - 1
       /\ RopeLine(rope, cursor.line)
            = RopeLine(last.rope, last.cursor.line - 1)
                \o RopeLine(last.rope, last.cursor.line)
       /\ last.ret.from.line = cursor.line /\ last.ret.from.byte = cursor.byte
       /\ last.ret.to.line = last.cursor.line /\ last.ret.to.byte = 0

\* C9: back() on a non-empty document never panics.
C9_BackNeverPanics ==
  (last.op = "back" /\ last.rope # <<>>) => ~panicked

VerticalMove == last.op \in {"cursor_up", "cursor_down"} /\ ~panicked

\* the line a vertical move is meant to reach
ExpectedLine ==
  IF last.op = "cursor_up"
    THEN (IF last.cursor.line = 0 THEN 0 ELSE last.cursor.line - 1)
    ELSE (IF last.cursor.line + 1 >= RopeLineLen(rope)
            THEN last.cursor.line ELSE last.cursor.line + 1)

\* the greatest character boundary of line that is at most byte
SnapBack(line, byte) ==
  CHOOSE b \in 0..Len(line) :
    /\ b <= byte
    /\ OnCharBoundary(line, b)
    /\ \A b2 \in 0..Len(line) : (b2 <= byte /\ OnCharBoundary(line, b2)) => b2 <= b

C8_BackAtStartIsNoOp ==
  [][(~panicked /\ cursor = Cursor(0, 0) /\ last'.op = "back")
       => /\ last'.ret = NoEdit
          /\ ~panicked'
          /\ rope' = rope
          /\ cursor' = cursor
          /\ tree' = tree
          /\ chan' = chan]_vars

\* a back() at {0,0} has returned None in a session whose tree and channel
\* carry an earlier edit
C8_Witness ==
  /\ last.op = "back" /\ last.cursor = Cursor(0, 0) /\ last.ret = NoEdit
  /\ ~panicked /\ lsp /\ rope # <<>>
  /\ chan # <<>> /\ tree.edit # NoEdit

HorizontalMove ==
  /\ last.op \in {"cursor_left", "cursor_right"}
  /\ last.cursor.line < RopeLineLen(last.rope)

\* the character boundaries of line
Boundaries(line) == {b \in 0..Len(line) : OnCharBoundary(line, b)}

\* the byte a horizontal move is meant to reach on line from byte
ExpectedByte(op, line, byte) ==
  LET before == {b \in Boundaries(line) : b < byte}
      after  == {b \in Boundaries(line) : b > byte}
  IN  IF op = "cursor_left"
        THEN (IF before = {} THEN byte
              ELSE CHOOSE b \in before : \A b2 \in before : b2 <= b)
        ELSE (IF after = {} THEN byte
              ELSE CHOOSE b \in after : \A b2 \in after : b <= b2)

\* C11: on a line that exists, cursor_left / cursor_right return without a
\* panic, keep the text and cursor.line, and put cursor.byte on the
\* previous / next character boundary of the line, or leave it where it is
\* at byte 0 / at the line's end; the result lies in 0..byte length.
C11_HorizontalMove ==
  HorizontalMove
    => /\ ~panicked
       /\ rope = last.rope
       /\ cursor.line = last.cursor.line
       /\ cursor.byte \in Boundaries(RopeLine(rope, cursor.line))
       /\ cursor.byte = ExpectedByte(last.op, RopeLine(rope, cursor.line),
                                     last.cursor.byte)

\* the frames written that carry an id, and the one the writer has built
\* and not yet written
ReqFrames == SelectSeq(writer, IsRequest)

AllRequests == ReqFrames \o (IF IsRequest(pc.msg) THEN <<pc.msg>> ELSE <<>>)

IsRequestEvent(e) == e.kind \in {"Hover", "Completion"}

\* C12: the requests of a session carry the ids 0, 1, 2, ... in the order
\* they were submitted, initialize first with id 0; notifications take no
\* id; the counter is the number of requests so far.
C12_RequestIds ==
  /\ next_id = Len(AllRequests)
  /\ \A k \in 1..Len(AllRequests) : AllRequests[k].id = k - 1
  /\ \A k \in 1..Len(AllRequests) : \A j \in 1..Len(AllRequests) :
       AllRequests[k].id = AllRequests[j].id => k = j
  /\ Len(AllRequests) > 0 => AllRequests[1].method = "initialize"
  /\ \A k \in 2..Len(AllRequests) :
       LET e == SelectSeq(submitted, IsRequestEvent)[k - 1]
       IN  /\ AllRequests[k].method = MethodOf(e.kind)
           /\ AllRequests[k].params = Position(e.line, e.character)
  /\ \A i \in 1..Len(writer) :
       writer[i].method \in {"initialized", "textDocument/didOpen",
                             "textDocument/didChange"}
         => ~IsRequest(writer[i])

\* initialize, then two notifications, then a hover and a completion
\* request have been written
C12_Witness ==
  /\ Len(ReqFrames) = 3
  /\ ReqFrames[2].method # ReqFrames[3].method
  /\ ReqFrames[3].id = 2

KindOfMethod(method) ==
  IF method = "initialize" THEN "Initialize"
  ELSE IF method = "textDocument/hover" THEN "Hover" ELSE "Completion"

\* the request written with this id
RequestOfId(id) ==
  writer[CHOOSE i \in 1..Len(writer) : IsRequest(writer[i]) /\ writer[i].id = id]

\* a response frame became the result of the kind of the request with its id
Interpreted(e) ==
  e.frame.type = "Response"
    => e.event = [type |-> "Result",
                  data |-> LspResultData(
                             KindOfMethod(RequestOfId(e.frame.id).method),
                             e.frame.result)]

\* C13: whatever the order of the answers, every response frame the reader
\* thread has read is a result of the kind of the request that carried the
\* frame's id, and this result is what the sink is handed.
C13_MatchedById ==
  /\ \A i \in 1..Len(sink) : Interpreted(sink[i])
  /\ pc.reader \in {"remove", "send"}
       => Interpreted([event |-> LspResponse(pc.got.result),
                       frame |-> pc.got.frame])

\* the sink holds two results of different kinds, the later request's first
C13_Witness ==
  \E i, j \in 1..Len(sink) :
    /\ i < j
    /\ sink[i].frame.type = "Response" /\ sink[j].frame.type = "Response"
    /\ sink[i].frame.id > sink[j].frame.id
    /\ sink[i].event.data.kind # sink[j].event.data.kind

\* the response to the request with this id has been read and handled
ResponseRead(id) ==
  /\ id \in child.answered
  /\ \A i \in 1..Len(reader) :
       reader[i].type = "Response" => reader[i].id # id
  /\ ~(pc.reader = "remove" /\ pc.got.frame.id = id)

\* C14: a request's entry is in the table from the allocation of its id
\* until its response has been read, and not after, for every kind of
\* request.
C14_EntryUntilResponse ==
  \A id \in 0..(next_id - 1) :
    TableHas(sent_requests, id) <=> ~ResponseRead(id)

\* C15: the first frame written is initialize; initialized follows only
\* once Lsp::init has read a response with the id of initialize; didOpen is
\* third; hover, completion and didChange frames come after these three.
C15_HandshakeOrder ==
  /\ Len(writer) >= 1
       => writer[1] = RequestMessage(0, "initialize", "init_params")
  /\ Len(writer) >= 2
       => /\ writer[2] = NotificationMessage("initialized", "{}")
          /\ pc.init_result.kind = "Response"
          /\ pc.init_result.id = writer[1].id
  /\ Len(writer) >= 3 => writer[3].method = "textDocument/didOpen"
  /\ \A i \in 1..Len(writer) :
       writer[i].method \in {"textDocument/hover", "textDocument/completion",
                             "textDocument/didChange"}
         => i > 3

\* a message that was waiting in the channel when didOpen was written has
\* been written after it
C15_Witness == Len(writer) >= 4 /\ pc.queued_at_open > 0

\* the channel message a written frame was built from
EventOf(f) ==
  IF f.method = "textDocument/didChange"
    THEN [kind |-> "DidChange", range |-> f.params.range,
          text |-> f.params.text]
    ELSE [kind |-> KindOfMethod(f.method), line |-> f.params.line,
          character |-> f.params.character]

\* the messages of the frames written after the handshake
Written == [i \in 1..(Len(writer) - 3) |-> EventOf(writer[i + 3])]

\* C16: while the writer thread lives, the frames written after the
\* handshake, the frame being written and the messages still in the
\* channel are, in this order, exactly the messages enqueued.
C16_WrittenInOrder ==
  pc.writer # "dead"
    => Written \o (IF pc.writer = "write" THEN <<EventOf(pc.msg)>> ELSE <<>>)
         \o chan = submitted

\* two different messages have gone through the channel and been written
C16_Witness ==
  /\ Len(writer) = 5 /\ chan = <<>>
  /\ submitted[1] # submitted[2]

\* C17: with a session, a controller step that changes the text and
\* returns appends to the channel the one didChange of the Edit it
\* returned; a step that leaves the text alone appends no didChange.
C17_OneChangePerMutation ==
  [][/\ (lsp /\ ~panicked' /\ rope' # rope)
          => /\ last'.ret.kind \in {"Insert", "Delete"}
             /\ submitted'
                  = Append(submitted, DidChangeOf(last'.ret, last'.text))
             /\ chan' = Append(chan, DidChangeOf(last'.ret, last'.text))
     /\ (rope' = rope /\ Len(submitted') > Len(submitted))
          => submitted'[Len(submitted')].kind # "DidChange"]_vars

\* an insert and then a back have each enqueued their didChange
C17_Witness ==
  /\ lsp /\ ~panicked /\ Len(submitted) = 2
  /\ submitted[1].kind = "DidChange" /\ submitted[1].text = <<Nl>>
  /\ submitted[2].kind = "DidChange" /\ submitted[2].text = <<>>

\* the characters of the cursor's line before the cursor
CharsBefore(r, c) == CharCount(Slice(RopeLine(r, c.line), 0, c.byte))

Before(p, q) ==
  p.line < q.line \/ (p.line = q.line /\ p.character < q.character)

\* C18: the didChange enqueued for an Insert has start = end = the line and
\* character index of the cursor before the insert and carries the
\* inserted text; the one for a Delete runs from the edit's from to its to,
\* from before to, and carries the empty text; the frame written for it
\* carries the same range and text.
C18_DidChangeShape ==
  [][/\ (Len(submitted') > Len(submitted)
           /\ submitted'[Len(submitted')].kind = "DidChange")
          => LET ev == submitted'[Len(submitted')]
             IN  IF last'.ret.kind = "Insert"
                   THEN /\ ev.range.start
                             = Position(cursor.line, CharsBefore(rope, cursor))
                        /\ ev.range.end = ev.range.start
                        /\ ev.text = last'.text
                   ELSE /\ ev.range.start = Position(last'.ret.from.line,
                                                     last'.ret.from.character)
                        /\ ev.range.end = Position(last'.ret.to.line,
                                                   last'.ret.to.character)
                        /\ Before(ev.range.start, ev.range.end)
                        /\ ev.text = <<>>
     /\ (Len(writer') > Len(writer)
           /\ writer'[Len(writer')].method = "textDocument/didChange")
          => /\ writer'[Len(writer')].params.range
                  = submitted[Len(writer') - 3].range
             /\ writer'[Len(writer')].params.text
                  = submitted[Len(writer') - 3].text]_vars

\* the didChange of a newline inserted behind a two-byte character has been
\* written, and so has the one of a deletion
C18_Witness ==
  /\ Len(writer) = 5
  /\ writer[4].method = "textDocument/didChange"
  /\ writer[4].params.text = <<Nl>>
  /\ writer[4].params.range.start = Position(0, 1)
  /\ writer[5].method = "textDocument/didChange"
  /\ writer[5].params.text = <<>>

\* C20: Buffer::create for a supported file whose server cannot be spawned
\* returns a Buffer without a session and does not panic.
C20_SpawnFailureRecovered ==
  (last.op = "create" /\ last.ret.kind = "Ok" /\ last.ret.supported
     /\ ~last.ret.spawns)
    => (~panicked /\ pc.buffer = "created" /\ ~lsp)

\* the bytes of the frames of the first k bodies
RECURSIVE FramesLen(_, _)
FramesLen(bodies, k) ==
  IF k = 0 THEN 0
  ELSE FramesLen(bodies, k - 1)
         + Len(ContentLength) + Len(Separator)
         + Len(Decimal(Len(bodies[k]))) + 4 + Len(bodies[k])

\* C19: a frame is "Content-Length: N", CR LF, CR LF and the body, N the
\* body's length in bytes; the reader never fails on such frames, each
\* body it returns is the body that was framed, and after each body the
\* stream stands at the first byte of the next frame.
C19_FrameRoundTrip ==
  /\ \A k \in 1..Len(io.bodies) :
       Frame(io.bodies[k])
         = ContentLength \o Separator \o Decimal(Len(io.bodies[k]))
             \o CrLf \o CrLf \o io.bodies[k]
  /\ io.pc # "dead"
  /\ Len(io.got) <= Len(io.bodies)
  /\ \A k \in 1..Len(io.got) : io.got[k] = io.bodies[k]
  /\ (io.pc = "header" /\ io.content_length = -2)
       => io.pos = FramesLen(io.bodies, Len(io.got))
  /\ io.pc = "body" => io.content_length = Len(io.bodies[Len(io.got) + 1])

\* both frames have been read back, one of them with a body of ten bytes
\* or more that has fewer characters than bytes
C19_Witness ==
  /\ Len(io.got) = 2
  /\ io.pos = Len(io.stream)
  /\ \E k \in 1..2 :
       Len(io.got[k]) >= 10 /\ CharCount(io.got[k]) < Len(io.got[k])


\* the lines a capture's node starts and ends on
FirstLine(h, k) == line_of_byte(h.source, h.captures[k].start_byte)

LastLine(h, k) == line_of_byte(h.source, h.captures[k].end_byte)

\* the part of capture k that lies on line l, in bytes of that line
PartOnLine(h, k, l) ==
  LET node == h.captures[k]
  IN  <<IF l = FirstLine(h, k)
          THEN node.start_byte - ByteOfLine(h.source, l) ELSE 0,
        IF l = LastLine(h, k)
          THEN node.end_byte - ByteOfLine(h.source, l)
          ELSE Len(RopeLine(h.source, l))>>

\* C23: a capture whose node spans lines l1..l2 with l1 < l2 is emitted on
\* the request for each line of l1..l2, with the part of its range on that
\* line, and is not used up before the request for l2 has been served
C23_MultiLineSplit ==
  hl.made =>
    \A k \in 1..Len(hl.captures) :
      FirstLine(hl, k) < LastLine(hl, k) =>
        /\ \A i \in 1..Len(hl.out) :
             hl.out[i].capture = k =>
               /\ hl.out[i].at \in FirstLine(hl, k)..LastLine(hl, k)
               /\ hl.out[i].range = PartOnLine(hl, k, hl.out[i].at)
        /\ (hl.taken >= k /\ hl.panic = "none") =>
             \A l \in FirstLine(hl, k)..LastLine(hl, k) :
               \E i \in 1..Len(hl.out) :
                 hl.out[i].capture = k /\ hl.out[i].at = l

\* C24: a capture whose tag the colour table does not hold is emitted with
\* the sentinel colour, on one line or on several, and the projector does
\* not fail on it
C24_UnknownTagFallsBack ==
  hl.made =>
    /\ hl.panic # "color"
    /\ \A i \in 1..Len(hl.out) :
         names[hl.captures[hl.out[i].capture].index] \notin DOMAIN map
           => hl.out[i].color = Sentinel

\* C25: the current line never decreases, no capture is emitted twice on
\* one line, and from some request on next_line returns None for good
C25_ForwardOnlyFinite ==
  /\ [][hl.made => hl'.current >= hl.current]_vars
  /\ [](hl.made =>
          \A i, j \in 1..Len(hl.out) :
            (hl.out[i].capture = hl.out[j].capture
               /\ hl.out[i].at = hl.out[j].at) => i = j)
  /\ [][hl.made /\ hl.done => hl'.done /\ ~Peek(hl')]_vars
  /\ <>[](hl.made /\ hl.done)


\* a position of an Edit against a text: its line is there, its byte is
\* inside the line, and its character counts the characters before the byte
CharacterOk(r, p) ==
  /\ ~LinePanics(r, p.line)
  /\ p.byte <= Len(RopeLine(r, p.line))
  /\ p.character = CharsBefore(r, p)

\* C26: in every Edit returned, character is the number of characters of
\* the line before byte: start in the text before the insertion and new_end
\* in the text after it; from and to, the ends of the removed range, in the
\* text before the deletion, and from also in the text after it when it was
\* computed there (a deletion inside a line)
C26_CharacterOfPosition ==
  ~panicked =>
    /\ last.ret.kind = "Insert" =>
         /\ CharacterOk(last.rope, last.ret.start)
         /\ CharacterOk(rope, last.ret.new_end)
    /\ last.ret.kind = "Delete" =>
         /\ CharacterOk(last.rope, last.ret.to)
         /\ CharacterOk(last.rope, last.ret.from)
         /\ last.cursor.byte # 0 => CharacterOk(rope, last.ret.from)

\* an Edit whose positions stand after a character of two bytes
C26_Witness ==
  /\ ~panicked
  /\ \/ /\ last.ret.kind = "Delete"
        /\ last.ret.to.character >= 1
        /\ last.ret.to.byte > last.ret.to.character
     \/ /\ last.ret.kind = "Insert"
        /\ last.ret.new_end.character >= 1
        /\ last.ret.new_end.byte > last.ret.new_end.character


\* the requests the writer thread has built, written or not
LkRequests ==
  SelectSeq(writer, IsRequest)
    \o (IF IsRequest(pc.msg) /\ "jsonrpc" \in DOMAIN pc.msg
          THEN <<pc.msg>> ELSE <<>>)

\* C27 as stated: the id counter is read and incremented inside the
\* exclusive section that inserts the pending entry, so the counter changes
\* only while the writer thread holds the table's lock
C27_AllocationAtomic ==
  [][next_id' # next_id => pc.lock = "writer"]_vars

\* C27 as the code has it: the pending entry of an id is inserted under the
\* table's lock, after the counter has been read and before it is
\* incremented; the counter is read and incremented outside the lock, by the
\* writer thread alone, and no two requests get the same id
C27_AllocationByWriter ==
  [][/\ sent_requests' # sent_requests
          => pc.lock \in {"writer", "reader"} /\ pc'.lock = pc.lock
     /\ next_id' # next_id
          => /\ pc.writer = "ni_incr" /\ pc.lock # "writer"
             /\ next_id' = next_id + 1
     /\ \A e \in sent_requests :
          e.id < next_id
            \/ (e.id = next_id /\ pc.writer \in {"ni_unlock", "ni_incr"})
     /\ \A i, j \in 1..Len(LkRequests) :
          LkRequests[i].id = LkRequests[j].id => i = j
    ]_vars

\* the reader thread is inside its exclusive section between the writer's
\* insertion of an entry and its increment of the counter
C27_Witness ==
  /\ pc.writer = "ni_incr"
  /\ pc.lock = "reader"
  /\ TableHas(sent_requests, next_id)

\* C28: the writer thread holds the table's lock only around its insert and
\* never while it writes or flushes a frame or reads from the child; the
\* reader thread holds it only around its lookup and around its remove, and
\* never while it reads from the child or calls the sink
C28_LockNotAcrossIo ==
  /\ pc.lock = "writer"
       => /\ pc.writer \in {"ni_insert", "ni_unlock", "rd_get", "rd_unlock"}
          /\ pc.writer \notin {"write_initialize", "read_initialize",
                               "initialized", "did_open", "write", "recv"}
  /\ pc.lock = "reader"
       => /\ pc.reader \in {"get", "get_unlock", "rm", "rm_unlock"}
          /\ pc.reader \notin {"read", "send"}

\* the writer thread writes a frame while the reader thread holds the lock
C28_Witness ==
  /\ pc.lock = "reader"
  /\ pc.writer = "write"
  /\ Len(sink) >= 1


\* how often the sink was called with something made from this frame
SinkCalls(f) == Cardinality({i \in 1..Len(sink) : sink[i].frame = f})

\* the frame is still in the pipe or in the hands of the reader thread
NotYetDelivered(f) ==
  \/ \E i \in 1..Len(reader) : reader[i] = f
  \/ pc.reader \in {"remove", "send"} /\ pc.got.frame = f

\* the response and notification frames the child has sent
SentByChild ==
  {ResponseFrame(id, RequestOfId(id).method) : id \in child.answered}
    \cup (IF child.notified THEN {ProgressFrame} ELSE {})

\* C21: the sink is called exactly once for every response frame and every
\* notification frame the session has read, the response to initialize
\* among them
C21_SinkOncePerFrame ==
  \A f \in SentByChild :
    SinkCalls(f) = IF NotYetDelivered(f) THEN 0 ELSE 1

\* the session is past Lsp::init
Ready == pc.writer \in {"recv", "write"}

\* C22: once the Buffer of a session is dropped, the child process is killed
\* in the end, wherever the session stands
C22_TeardownKills ==
  (lsp /\ pc.buffer = "dropped") ~> child.killed

\* C30: no protocol error ends a thread of the session: it is logged and
\* ignored, and the thread goes on, or the sink has been told that the
\* session is closed
C30_ErrorsReported ==
  (pc.writer = "dead" \/ pc.reader = "dead")
    => \E i \in 1..Len(sink) : sink[i].event.type = "Closed"

\* the sink has been handed the response to the request with this id
Delivered(id) ==
  \E i \in 1..Len(sink) :
    sink[i].frame.type = "Response" /\ sink[i].frame.id = id

\* C29: in the Ready state a request the child has not answered keeps its
\* table entry, and whatever stays unanswered every message enqueued is
\* written in the end and every response the child has sent is handed to the
\* sink in the end (unless the editor thread panics, which ends the process)
C29_UnansweredBlocksNothing ==
  /\ [](Ready => \A i \in Unanswered : TableHas(sent_requests, writer[i].id))
  /\ \A n \in 1..MaxSubmitted :
       (Ready /\ Len(submitted) >= n) ~> (Len(writer) >= n + 3 \/ panicked)
  /\ \A id \in 1..MaxSubmitted :
       (Ready /\ id \in child.answered) ~> (Delivered(id) \/ panicked)

\* the first request is unanswered and in the table, a later request has
\* been written, and its response has been handed to the sink
C29_Witness ==
  /\ Ready
  /\ \E i, j \in 1..Len(writer) :
       /\ i < j
       /\ i \in Unanswered
       /\ TableHas(sent_requests, writer[i].id)
       /\ IsRequest(writer[j])
       /\ Delivered(writer[j].id)

\* C31: in a header block with lines that have no ": " and with headers
\* other than Content-Length, the reader does not fail, the length it reads
\* the body with is the one of the Content-Length header, and the bodies it
\* returns are the bodies framed, up to the last byte of the stream
C31_OtherLinesSkipped ==
  /\ io.pc # "dead"
  /\ Len(io.got) <= Len(io.bodies)
  /\ \A k \in 1..Len(io.got) : io.got[k] = io.bodies[k]
  /\ io.pc = "body" => io.content_length = Len(io.bodies[Len(io.got) + 1])
  /\ Len(io.got) = Len(io.bodies) => io.pos = Len(io.stream)

\* both frames have been read, each with a line without ": " on one side
\* of its Content-Length header and another header on the other side
C31_Witness ==
  /\ Len(io.got) = 2
  /\ \E n \in NoSeparatorLines, o \in OtherHeaders :
       io.stream = FrameAmong(<<n>>, <<o>>, io.bodies[1])
                     \o FrameAmong(<<o>>, <<n>>, io.bodies[2])

\* the captures whose node lies on or crosses line l
OnLine(h, l) ==
  {k \in 1..Len(h.captures) : FirstLine(h, k) <= l /\ l <= LastLine(h, k)}

\* the captures emitted since the last request for a line
Drained(h) == {h.out[i].capture : i \in (h.base + 1)..Len(h.out)}

\* a request for a line has been drained: next has just returned its first
\* None
DrainEnds ==
  /\ hl.made /\ hl.line /\ hl.ret.kind # "None"
  /\ hl'.line /\ hl'.ret.kind = "None" /\ hl'.panic = "none"

\* C32: draining the request for line L emits exactly the captures whose
\* node lies on or crosses L, in ascending order, none of a later line, and
\* leaves the current line at L + 1
C32_DrainOneLine ==
  [][DrainEnds =>
       /\ Drained(hl') = OnLine(hl', hl'.asked)
       /\ \A i, j \in (hl'.base + 1)..Len(hl'.out) :
            i < j => hl'.out[i].capture < hl'.out[j].capture
       /\ hl'.current = hl'.asked + 1]_vars

\* the last controller call was an insert or a back() that made an Edit
\* and returned
Edited ==
  /\ ~panicked
  /\ last.op \in {"insert", "back"}
  /\ last.ret.kind \in {"Insert", "Delete"}

\* C33: whenever a controller operation has returned, the tree is the parse
\* of the current text; after an insert or a successful back() it is the
\* reparse of a tree patched with the descriptor of that operation's Edit
C33_TreeNeverStale ==
  ~panicked =>
    /\ tree.text = rope
    /\ Edited => tree.edit = to_ts(last.ret)

\* an insert has returned and the tree was reparsed over the longer text
C33_Witness ==
  /\ Edited /\ last.ret.kind = "Insert"
  /\ tree.text = rope
  /\ Len(tree.text) = Len(last.rope) + 1
  /\ tree.edit.new_end_byte > tree.edit.start_byte

\* C34: the descriptor of an Insert starts and has its old end at the
\* edit's start and its new end at the edit's new end; the descriptor of a
\* Delete starts and has its new end at from and its old end at to, in
\* bytes and in positions alike
C34_DescriptorOfEdit ==
  Edited =>
    LET d == tree.edit
        e == last.ret
    IN  IF e.kind = "Insert"
          THEN /\ d.start_byte = e.start_byte
               /\ d.old_end_byte = e.start_byte
               /\ d.new_end_byte = e.new_end_byte
               /\ d.start_position = Point(e.start)
               /\ d.old_end_position = Point(e.start)
               /\ d.new_end_position = Point(e.new_end)
          ELSE /\ d.start_byte = e.from_byte
               /\ d.new_end_byte = e.from_byte
               /\ d.old_end_byte = e.to_byte
               /\ d.start_position = Point(e.from)
               /\ d.old_end_position = Point(e.to)
               /\ d.new_end_position = Point(e.from)

\* a back() has deleted a line break: from and to lie on different lines
C34_Witness ==
  /\ Edited /\ last.ret.kind = "Delete"
  /\ last.ret.from.line < last.ret.to.line
  /\ tree.edit.old_end_byte > tree.edit.start_byte

\* the Point names the place of the cursor: row the line index, column the
\* byte offset within the line
SamePlace(point, c) == point.row = c.line /\ point.column = c.byte

\* C35: every position of the descriptor names the place of the Edit
\* position it was built from
C35_PositionsSamePlace ==
  Edited =>
    LET d == tree.edit
        e == last.ret
    IN  IF e.kind = "Insert"
          THEN /\ SamePlace(d.start_position, e.start)
               /\ SamePlace(d.old_end_position, e.start)
               /\ SamePlace(d.new_end_position, e.new_end)
          ELSE /\ SamePlace(d.start_position, e.from)
               /\ SamePlace(d.old_end_position, e.to)
               /\ SamePlace(d.new_end_position, e.from)

\* the bytes of the first n characters of a line, or of the whole line if
\* it has fewer
RECURSIVE BytesOfChars(_, _)
BytesOfChars(line, n) ==
  IF n = 0 \/ line = <<>> THEN 0
  ELSE LET w == Min(LenUtf8(line[1]), Len(line))
       IN  w + BytesOfChars(Slice(line, w, Len(line)), n - 1)

\* where the server finds a Position of a change in its copy of the text
OffsetOf(text, pos) ==
  AfterBreak(text, pos.line, 0) + BytesOfChars(RopeLine(text, pos.line), pos.character)

\* the server's copy after a didChange: the range replaced by the payload
Changed(text, params) ==
  Slice(text, 0, OffsetOf(text, params.range.start))
    \o params.text
    \o Slice(text, OffsetOf(text, params.range.end), Len(text))

\* the server's copy after the first k frames written, k >= 3: the text of
\* didOpen with the didChange notifications applied in order
RECURSIVE Replica(_)
Replica(k) ==
  IF k <= 3 THEN writer[3].params.text
  ELSE IF writer[k].method = "textDocument/didChange"
    THEN Changed(Replica(k - 1), writer[k].params)
  ELSE Replica(k - 1)

\* the handshake is over and the writer has written every message enqueued
AllWritten ==
  /\ ~panicked
  /\ Len(writer) >= 3
  /\ pc.writer = "recv"
  /\ chan = <<>>

\* C36: whenever the writer has written every message enqueued, the text of
\* didOpen with the written changes applied in order is the text of the
\* Buffer, also when the Buffer was changed before didOpen was written
C36_ReplicaConsistent ==
  AllWritten => Replica(Len(writer)) = rope

\* two changes have reached the server, the first of them enqueued before
\* didOpen was written, and the text is not the one of didOpen
C36_Witness ==
  /\ AllWritten
  /\ Len(writer) = 5
  /\ pc.queued_at_open > 0
  /\ writer[4].method = "textDocument/didChange"
  /\ writer[5].method = "textDocument/didChange"
  /\ rope # writer[3].params.text

MoveOps == {"cursor_up", "cursor_down", "cursor_left", "cursor_right"}

AskOps == {"Hover", "Completion"}

\* the request of a Hover or Complete at the cursor: its line and the
\* number of characters of that line before it
RequestAt(kind, r, c) ==
  [kind |-> kind, line |-> c.line,
   character |-> CharCount(Slice(RopeLine(r, c.line), 0, c.byte))]

C38_AssertionHolds ==
  hl.made => hl.panic # "assert"

\* the table holds an entry for the id of this frame
Pending(f) == TableHas(sent_requests, f.id)

\* C39: the entry of an id is in the table before the request with that id
\* is written, and it is there whenever a thread looks up or removes the id
\* of a response the child has sent: for the request about to be written,
\* for every request written and not answered, for every response still in
\* the pipe and for the response a thread has in hand; no lookup fails
C39_EntryBeforeWrite ==
  /\ (pc.writer \in {"write_initialize", "write"} /\ IsRequest(pc.msg))
       => Pending(pc.msg)
  /\ \A i \in Unanswered : Pending(writer[i])
  /\ \A i \in 1..Len(reader) : reader[i].type = "Response" => Pending(reader[i])
  /\ pc.reader \in {"get_lock", "get", "get_unlock", "rm_lock", "rm"}
       => Pending(pc.got.frame)
  /\ pc.writer \in {"rd_lock", "rd_get"} => Pending(pc.init_result.frame)
  /\ pc.lock # "poisoned"
  /\ pc.reader # "dead"

\* the reader thread looks up the response to the first request while the
\* writer thread waits for the lock to insert the entry of the second
C39_Witness ==
  /\ pc.reader = "get" /\ pc.got.frame.id = 1
  /\ pc.writer = "ni_lock" /\ pc.msg.id = 2
  /\ ~TableHas(sent_requests, 2)

\* C40: once the reader thread has stopped on a response whose id the
\* table does not hold, the writer thread still lives, so that it can go on
\* allocating ids and writing requests, and no send of the editor thread
\* has failed
C40_SessionSurvivesReader ==
  pc.reader = "dead" =>
    /\ pc.writer # "dead"
    /\ ~(panicked /\ last.op \in {"Hover", "Completion", "insert"})

====
